---- MODULE Spec2Model ----
(***************************************************************************)
(* TrackTime365: calendar mirror.  A model of                              *)
(*   - DatabaseManager.upsert_events_batch / upsert_event (database.py):   *)
(*     the three tables, the staging tables and the four SQL statements    *)
(*     of the merge;                                                       *)
(*   - CalendarSync.sync_calendar, get_users_batch,                        *)
(*     get_calendar_events_batch, process_events, process_event            *)
(*     (calendar_sync.py): one run over the mailboxes.                     *)
(* SpecDb drives the database API directly (as the database tests do),     *)
(* Spec drives one sync run end to end, SpecRuns successive runs with the  *)
(* remote changing in between, and SpecTxn runs upsert_events_batch        *)
(* statement by statement on two pooled connections at once.  SpecCrash    *)
(* kills a run at any point and starts the next, SpecLocal lets a local    *)
(* caller mark events deleted between runs, SpecPool has threads borrow    *)
(* connections through get_connection, SpecQuery calls get_events and      *)
(* SpecTz resolves mailbox timezones.  SpecOneShot and SpecLoop are the    *)
(* two modes of main.py around a run, SpecWindow calls sync_calendar with  *)
(* any window, SpecAuth and SpecRetry call authenticate and                *)
(* _make_request_with_retry on their own, SpecResync repeats a run after   *)
(* a local caller marked events deleted, and SpecStaging follows the       *)
(* staging tables of upsert_events_batch over the pooled connections.      *)
(***************************************************************************)
EXTENDS Integers, Sequences, FiniteSets, TLC

VARIABLES
    \* ---- the relational store (database.py:304-359) ----
    calendar_event,                    \* set of event rows
    calendar_category,                 \* set of category rows
    calendar_event_calendar_category,  \* set of link rows
    next_category_id,                  \* IDENTITY(1,1) of calendar_category
    collation,                         \* server collation: "CI" or "CS"
    now,                               \* the server clock read by GETDATE()
    \* ---- the last call of upsert_events_batch ----
    last_upsert,
    \* ---- the transaction of each pooled connection (database.py:27-38) ----
    txn,                               \* worker -> its upsert transaction
    \* ---- the remote (Graph API) ----
    remote,                            \* mailbox -> its calendarView, in order
    \* ---- one run of sync_calendar ----
    run_no,                            \* number of the run (calls of sync_calendar)
    pc,                                \* position of the run
    run_result,                        \* how sync_calendar ended
    list_page,                         \* page of the user listing requested next
    users,                             \* all_users / users
    user_idx,                          \* position of the "for user in users" loop
    skip,                              \* $skip of the next page request
    all_events,                        \* events accumulated by the fetch
    events,                            \* what get_calendar_events_batch returned
    ev_idx,                            \* position of process_events' loop
    success_count,                     \* process_events' success_count
    \* ---- observations of the run (history) ----
    page_log,                          \* page requests: [user, skip, outcome]
    fetch_log,                         \* finished fetches: [user, outcome]
    upsert_log,                        \* process_event calls: [user, raw, called, ok]
    run_log,                           \* authenticate and listing requests: [step, outcome]
    \* ---- the connection pool (database.py:21-38) ----
    pool,                              \* [connection_pool, borrower]
    \* ---- the last call of get_events (calendar_sync.py:321-335) ----
    get_events_call,                   \* [start_date, end_date, category, outcome, queries]
    \* ---- timezone resolution (calendar_sync.py:65-88, 123-173) ----
    tz_cache,                          \* lru_cache of windows_to_iana: label -> result
    downloads,                         \* labels for which the CLDR table was requested
    tz_call,                           \* the last call of get_user_timezone
    \* ---- the process (main.py:34-75) ----
    main,                              \* [mode, pc, jobs, interrupted, errors]
    \* ---- the arguments of sync_calendar (calendar_sync.py:260) ----
    window,                            \* [start_date, end_date, checked]
    \* ---- calls of single methods ----
    auth,                              \* the account and the last call of authenticate
    request,                           \* one call of _make_request_with_retry
    staging,                           \* upsert_events_batch statement by statement on the pool
    \* ---- the local caller of mark_event_deleted ----
    marked                             \* ids of the events it has marked deleted

dbvars  == <<calendar_event, calendar_category, calendar_event_calendar_category,
             next_category_id, collation, now, last_upsert, txn>>
runvars == <<run_no, pc, run_result, list_page, users, user_idx, skip, all_events, events,
             ev_idx, success_count, page_log, fetch_log, upsert_log, run_log>>
poolvars == <<pool, get_events_call, tz_cache, downloads, tz_call, main, window>>
callvars == <<auth, request, staging, marked>>
auxvars == <<poolvars, callvars>>
vars    == <<dbvars, remote, runvars, auxvars>>

----------------------------------------------------------------------------
(* Bounds of the model *)

MaxClock == 3       \* SpecDb: number of upsert calls in one behaviour
MaxTxns == 2        \* SpecTxn: number of transactions begun in one behaviour
MaxRuns == 2        \* SpecRuns: number of sync runs in one behaviour
BatchSize == 2      \* batch_size of get_calendar_events_batch, scaled down
PoolSize == 2       \* pool_size of DatabaseManager, scaled down

(* Program constants *)

MaxRetries == 3     \* self.max_retries
NullDate   == 0     \* _parse_date's None; real instants are 1, 2, ...

Range(s) == {s[i] : i \in 1..Len(s)}

----------------------------------------------------------------------------
(* Category names and the server's string comparison *)

Names == {"Work", "work", "Meeting"}

NameOrder == <<"Meeting", "Work", "work">>

Lower(n) == IF n = "Work" THEN "work" ELSE IF n = "Meeting" THEN "meeting" ELSE n

\* The key two NVARCHAR values are compared by under collation c.
Key(n, c) == IF c = "CI" THEN Lower(n) ELSE n

SameName(a, b, c) == Key(a, c) = Key(b, c)

----------------------------------------------------------------------------
(* upsert_events_batch: staging (database.py:137-210) *)

\* The columns of an event as it is passed to upsert_events_batch.
EventData(id, email, uname, subj, descr, sd, ed, lm, del, cats) ==
    [event_id |-> id, user_email |-> email, user_name |-> uname, subject |-> subj,
     description |-> descr, start_date |-> sd, end_date |-> ed,
     last_modified |-> lm, is_deleted |-> del, categories |-> cats]

\* INSERT INTO #temp_events: event_id is the primary key, the dates are NOT NULL.
TempEventsOk(evs) ==
    /\ \A i \in 1..Len(evs) :
          /\ evs[i].start_date # NullDate
          /\ evs[i].end_date # NullDate
          /\ evs[i].last_modified # NullDate
    /\ \A i, j \in 1..Len(evs) : i # j => evs[i].event_id # evs[j].event_id

\* INSERT INTO #temp_categories SELECT DISTINCT: one representative of each
\* group of names the collation holds equal; which one is up to the server.
TempCategories(evs, c) ==
    LET all == UNION {Range(evs[i].categories) : i \in 1..Len(evs)}
    IN  {T \in SUBSET all :
            \A n \in all : Cardinality({t \in T : SameName(t, n, c)}) = 1}

\* #temp_event_categories as the set of (event_id, category_name) it holds.
TempEventCategories(evs) ==
    UNION {{<<evs[i].event_id, n>> : n \in Range(evs[i].categories)} : i \in 1..Len(evs)}

\* INSERT INTO #temp_event_categories VALUES ...: one row per list entry, primary
\* key (event_id, category_name): two entries of one event that the collation
\* holds equal violate it.
TempEventCategoriesOk(evs, c) ==
    \A i, j \in 1..Len(evs) :
        \A k \in 1..Len(evs[i].categories), l \in 1..Len(evs[j].categories) :
            (<<i, k>> # <<j, l>> /\ evs[i].event_id = evs[j].event_id)
                => ~SameName(evs[i].categories[k], evs[j].categories[l], c)

StagingOk(evs, c) == TempEventsOk(evs) /\ TempEventCategoriesOk(evs, c)

----------------------------------------------------------------------------
(* upsert_events_batch: the merge (database.py:212-275) *)

EventRow(e, created, updated) ==
    [event_id |-> e.event_id, user_email |-> e.user_email, user_name |-> e.user_name,
     subject |-> e.subject, description |-> e.description,
     start_date |-> e.start_date, end_date |-> e.end_date,
     last_modified |-> e.last_modified, is_deleted |-> e.is_deleted,
     created_at |-> created, updated_at |-> updated]

\* Mutant of MergeEvents: the MERGE without its WHEN MATCHED branch.
MergeEventsInsertOnly(table, evs, t) ==
    table \cup {EventRow(e, t, t) : e \in Range(evs)}

\* Mutant of MergeEvents: the WHEN NOT MATCHED branch taken for every source row.
MergeEventsAlwaysInsert(table, evs, t) ==
    {EventRow(e, r.created_at, t) :
        <<r, e>> \in {p \in table \X Range(evs) : p[1].event_id = p[2].event_id}}
      \cup {r \in table : \A e \in Range(evs) : e.event_id # r.event_id}
      \cup {EventRow(e, t, t) : e \in Range(evs)}

\* Mutant of MergeEvents: with WHEN NOT MATCHED BY SOURCE THEN DELETE.
MergeEventsDeleteUnmatched(table, evs, t) ==
    {EventRow(e, r.created_at, t) :
        <<r, e>> \in {p \in table \X Range(evs) : p[1].event_id = p[2].event_id}}
      \cup {EventRow(e, t, t) :
              e \in {x \in Range(evs) : \A r \in table : r.event_id # x.event_id}}

\* Mutant of MergeEvents: UPDATE SET without "is_deleted = source.is_deleted".
MergeEventsKeepDeleted(table, evs, t) ==
    {[EventRow(e, r.created_at, t) EXCEPT !.is_deleted = r.is_deleted] :
        <<r, e>> \in {p \in table \X Range(evs) : p[1].event_id = p[2].event_id}}
      \cup {r \in table : \A e \in Range(evs) : e.event_id # r.event_id}
      \cup {EventRow(e, t, t) :
              e \in {x \in Range(evs) : \A r \in table : r.event_id # x.event_id}}

\* Mutant of MergeEvents: WHEN MATCHED AND source.last_modified >=
\* target.last_modified, a row is overwritten by a version that is not older only.
MergeEventsIfNewer(table, evs, t) ==
    LET src == Range(evs)
        newer(r) == \A e \in src :
                       e.event_id = r.event_id => e.last_modified >= r.last_modified
    IN  {r \in table : (\A e \in src : e.event_id # r.event_id) \/ ~newer(r)}
          \cup {EventRow(e, r.created_at, t) :
                  <<r, e>> \in {p \in table \X src :
                                   p[1].event_id = p[2].event_id /\ newer(p[1])}}
          \cup {EventRow(e, t, t) :
                  e \in {x \in src : \A r \in table : r.event_id # x.event_id}}

\* MERGE calendar_event USING #temp_events ON event_id: a matched row takes every
\* column of its source and updated_at = GETDATE(); an unmatched source is
\* inserted (created_at and updated_at default to GETDATE()).
MergeEvents(table, evs, t) ==
    LET src == Range(evs)
        updated == {EventRow(e, r.created_at, t) :
                       <<r, e>> \in {p \in table \X src : p[1].event_id = p[2].event_id}}
        untouched == {r \in table : \A e \in src : e.event_id # r.event_id}
        inserted == {EventRow(e, t, t) :
                       e \in {x \in src : \A r \in table : r.event_id # x.event_id}}
    IN  untouched \cup updated \cup inserted

Rank(n) == CHOOSE i \in 1..Len(NameOrder) : NameOrder[i] = n

\* MERGE calendar_category USING #temp_categories ON name: only WHEN NOT MATCHED
\* THEN INSERT; the identity column numbers the new rows.
MergeCategories(cats, temp, next_id, c, t) ==
    LET new == {n \in temp : \A cc \in cats : ~SameName(cc.name, n, c)}
    IN  cats \cup {[category_id |-> next_id + Cardinality({m \in new : Rank(m) < Rank(n)}),
                    name |-> n, created_at |-> t] : n \in new}

\* Mutant of StaleLinks: the DELETE statement left out.
StaleLinksKept(links, cats, evs, c) == {}

\* Mutant of StaleLinks: the DELETE without its JOIN on #temp_events.
StaleLinksAnyEvent(links, cats, evs, c) ==
    {ec \in links :
        ~\E tec \in TempEventCategories(evs), cc \in cats :
              /\ SameName(cc.name, tec[2], c)
              /\ tec[1] = ec.event_id
              /\ cc.category_id = ec.category_id}

\* DELETE ec FROM calendar_event_calendar_category ec JOIN #temp_events te ...
\* WHERE NOT EXISTS (#temp_event_categories tec JOIN calendar_category cc ON
\* cc.name = tec.category_name WHERE tec.event_id = ec.event_id AND
\* cc.category_id = ec.category_id): the rows the statement deletes.
StaleLinks(links, cats, evs, c) ==
    {ec \in links :
        /\ \E e \in Range(evs) : e.event_id = ec.event_id
        /\ ~\E tec \in TempEventCategories(evs), cc \in cats :
              /\ SameName(cc.name, tec[2], c)
              /\ tec[1] = ec.event_id
              /\ cc.category_id = ec.category_id}

\* Mutant of NewLinks: the INSERT without its WHERE NOT EXISTS.
NewLinksUnguarded(links, cats, evs, c, t) ==
    {[event_id |-> p[1][1], category_id |-> p[2].category_id, created_at |-> t] :
        p \in {q \in TempEventCategories(evs) \X cats : SameName(q[2].name, q[1][2], c)}}

\* INSERT INTO calendar_event_calendar_category SELECT DISTINCT tec.event_id,
\* cc.category_id ... WHERE NOT EXISTS (the link): the rows the statement adds.
NewLinks(links, cats, evs, c, t) ==
    {[event_id |-> p[1][1], category_id |-> p[2].category_id, created_at |-> t] :
        p \in {q \in TempEventCategories(evs) \X cats :
                 /\ SameName(q[2].name, q[1][2], c)
                 /\ ~\E ec \in links : /\ ec.event_id = q[1][1]
                                       /\ ec.category_id = q[2].category_id}}

\* The two statements of "Update event-category relationships", in order.
SyncLinks(links, cats, evs, c, t) ==
    LET kept == links \ StaleLinks(links, cats, evs, c)
    IN  kept \cup NewLinks(kept, cats, evs, c, t)

\* upsert_events_batch(events).  db_error: the server or the connection fails
\* somewhere in the transaction (lock timeout, lost connection); temp: the rows
\* SELECT DISTINCT put into #temp_categories.  Either everything is committed
\* (line 277) and True returned, or the transaction is rolled back and the error
\* raised (282-284): result "constraint" when a staging INSERT violates a
\* constraint, "db_error" otherwise.
\* Identity values burnt by a rolled-back MERGE are not modelled: category_id is
\* an opaque surrogate key.
upsert_events_batch(evs, db_error, temp) ==
    LET t == now + 1
        staged == StagingOk(evs, collation)
        ok == ~db_error /\ staged
        cats == MergeCategories(calendar_category, temp, next_category_id, collation, t)
    IN  /\ now' = t
        /\ collation' = collation
        /\ txn' = txn
        /\ last_upsert' = [events |-> evs,
                           result |-> IF ok THEN "ok"
                                      ELSE IF staged THEN "db_error" ELSE "constraint",
                           repeated |-> last_upsert.result = "ok" /\ last_upsert.events = evs]
        /\ IF ok
           THEN /\ calendar_event' = MergeEvents(calendar_event, evs, t)
                /\ calendar_category' = cats
                /\ next_category_id' =
                      next_category_id + Cardinality(cats \ calendar_category)
                /\ calendar_event_calendar_category' =
                      SyncLinks(calendar_event_calendar_category, cats, evs, collation, t)
           ELSE UNCHANGED <<calendar_event, calendar_category,
                            calendar_event_calendar_category, next_category_id>>

\* upsert_event(event) (database.py:300-302)
upsert_event(e, db_error) ==
    \E temp \in TempCategories(<<e>>, collation) : upsert_events_batch(<<e>>, db_error, temp)

----------------------------------------------------------------------------
(* Initial state: the tables exist and are empty (initialize_table), no run has
   started. *)

Mailboxes == {"A", "B", "C"}

\* The connections of the pool that run upserts at the same time.
Workers == {"W1", "W2"}

\* A connection on which no transaction has been begun.
IdleTxn ==
    [pc |-> "idle", result |-> "none", failed_at |-> "none", evs |-> <<>>,
     temp |-> {}, t |-> 0, matched |-> {}, new_names |-> {}, ev_locks |-> {},
     cat_locks |-> {}, undo_events |-> {}, ev_written |-> {}, cats_inserted |-> {},
     links_deleted |-> {}, links_inserted |-> {}, alone |-> FALSE,
     before |-> [calendar_event |-> {}, calendar_category |-> {},
                 calendar_event_calendar_category |-> {}]]

NoFetch == [ok |-> FALSE, raised |-> FALSE, events |-> <<>>]

\* pyodbc.connect: a fresh connection, no transaction open.
NewConnection == [open_txn |-> FALSE, broken |-> FALSE]

NoConnection == [open_txn |-> FALSE, broken |-> TRUE]

\* One use of get_connection by a thread: where it stands and what it holds.
IdleBorrower == [pc |-> "idle", connection |-> NoConnection, last |-> "none"]

\* _initialize_pool: pool_size fresh connections in the queue.
_initialize_pool ==
    [connection_pool |-> [i \in 1..PoolSize |-> NewConnection],
     borrower        |-> [w \in Workers |-> IdleBorrower]]

\* get_events has not been called.
NoCall == [start_date |-> NullDate, end_date |-> NullDate, category |-> "",
           user_email |-> "", outcome |-> "none", queries |-> 0]

\* Timezone labels a mailbox may carry: the overridden one, one of the local
\* alias table, two that only the remote (CLDR) table knows, one nobody knows.
TzLabels == {"W. Europe Standard Time", "Pacific Standard Time", "Zone A", "Zone B",
             "Bogus"}

\* get_user_timezone has not been called.
NoTzCall == [auth_ok |-> FALSE, response |-> "none", label |-> "", remote |-> "not_called",
             result |-> "", outcome |-> "none"]

\* main has not parsed its arguments yet.
NoMain == [mode |-> "none", pc |-> "start", jobs |-> 0, interrupted |-> FALSE,
           errors |-> 0]

\* The account holds no token and authenticate has not been called.
NoAuth == [is_authenticated |-> FALSE, was_authenticated |-> FALSE, outcome |-> "none",
           account_calls |-> 0, result |-> "none", raised |-> FALSE]

\* _make_request_with_retry has not been called.
NoRequest == [pc |-> "idle", retries |-> 0, responses |-> <<>>, sleeps |-> <<>>,
              result |-> "none"]

\* A pooled connection as the staging tables and the open transaction see it.
FreshSession == [temp_committed |-> FALSE, temp_now |-> FALSE, trancount |-> 0,
                 written |-> FALSE]

\* No upsert has been called on the pool.
NoStaging ==
    [nesting |-> "unknown", queue |-> [i \in 1..PoolSize |-> FreshSession],
     connection |-> FreshSession, pc |-> "idle", calls |-> 0, db_error |-> FALSE,
     failed |-> FALSE, leftover |-> FALSE, stored |-> {}, results |-> <<>>]

\* The windows sync_calendar may be called with: start before, at and after end.
Windows == {[start_date |-> sd, end_date |-> ed, checked |-> FALSE] : sd, ed \in {1, 2}}

\* The window sync_job passes: 90 days either side of the center date.
JobWindow == [start_date |-> 1, end_date |-> 2, checked |-> FALSE]

AuxInitCommon ==
    /\ pool = _initialize_pool
    /\ get_events_call = NoCall
    /\ tz_cache = [l \in TzLabels |-> "miss"]
    /\ downloads = <<>>
    /\ tz_call = NoTzCall
    /\ main = NoMain
    /\ auth = NoAuth
    /\ request = NoRequest
    /\ staging = NoStaging
    /\ marked = {}

AuxInit == AuxInitCommon /\ window = JobWindow

DbInit ==
    /\ calendar_event = {}
    /\ calendar_category = {}
    /\ calendar_event_calendar_category = {}
    /\ next_category_id = 1
    /\ collation \in {"CI", "CS"}
    /\ now = 0
    /\ last_upsert = [events |-> <<>>, result |-> "none", repeated |-> FALSE]
    /\ txn = [w \in Workers |-> IdleTxn]

RunInit ==
    /\ run_no = 1
    /\ pc = "idle"
    /\ run_result = "none"
    /\ list_page = 1
    /\ users = <<>>
    /\ user_idx = 0
    /\ skip = 0
    /\ all_events = <<>>
    /\ events = NoFetch
    /\ ev_idx = 0
    /\ success_count = 0
    /\ page_log = <<>>
    /\ fetch_log = <<>>
    /\ upsert_log = <<>>
    /\ run_log = <<>>

----------------------------------------------------------------------------
(* SpecDb: callers of the database API (tests/test_database_sync.py), with
   events drawn from a bounded set. *)

EventIds == {"E1", "E2"}

FieldVariants ==
    {[subject |-> "Standup", last_modified |-> 2, is_deleted |-> FALSE],
     [subject |-> "Review",  last_modified |-> 1, is_deleted |-> TRUE]}

\* Category lists as the remote delivers them: empty, single, several, exact
\* duplicates, and names that differ by case only.
CatLists ==
    {<<>>, <<"Work">>, <<"work">>, <<"Meeting">>, <<"Work", "Meeting">>,
     <<"Work", "work">>, <<"Work", "Work">>}

DbEvent(id, v, cats) ==
    EventData(id, "alice@x.com", "Alice", v.subject, "", 1, 2,
              v.last_modified, v.is_deleted, cats)

EventInputs ==
    {DbEvent(id, v, cats) : id \in EventIds, v \in FieldVariants, cats \in CatLists}

BatchInputs ==
    {<<DbEvent("E1", v, <<"Work">>), DbEvent(id, v, c2)>> :
        id \in EventIds,
        v \in {w \in FieldVariants : w.subject = "Review"},
        c2 \in {<<"work">>, <<"Meeting">>}}

InitDb == DbInit /\ RunInit /\ AuxInit /\ remote = [m \in Mailboxes |-> <<>>]

UpsertEvent ==
    /\ now < MaxClock
    /\ \E e \in EventInputs, db_error \in BOOLEAN : upsert_event(e, db_error)
    /\ UNCHANGED <<remote, auxvars, runvars>>

UpsertBatch ==
    /\ now < MaxClock
    /\ \E evs \in BatchInputs, db_error \in BOOLEAN :
          \E temp \in TempCategories(evs, collation) :
              upsert_events_batch(evs, db_error, temp)
    /\ UNCHANGED <<remote, auxvars, runvars>>

NextDb == UpsertEvent \/ UpsertBatch

SpecDb == InitDb /\ [][NextDb]_vars

----------------------------------------------------------------------------
(* The remote: the user directory and each mailbox's calendarView *)

\* The directory as the listing pages it; a user may have no mail address.
UserPages ==
    << <<[mail |-> "A", displayName |-> "Alice"], [mail |-> "B", displayName |-> "Bob"]>>,
       <<[mail |-> "", displayName |-> "Room"], [mail |-> "C", displayName |-> "Carol"]>> >>

Iso(n) == [kind |-> "iso", wall |-> n]
NoDateTime == [kind |-> "absent", wall |-> NullDate]

RawEvent(id, subj, sd, ed, cats) ==
    [id |-> id, subject |-> subj, organizer |-> "Org", body |-> "",
     start |-> sd, end |-> ed, categories |-> cats]

\* Calendars a mailbox may hold: well-formed events, an event that ends before it
\* starts, one without subject, one without id, one with a duplicated category,
\* one without start.  Event ids are unique across mailboxes.
Calendars ==
    [A |-> {<<RawEvent("A1", "Standup", Iso(1), Iso(2), <<"Work">>),
              RawEvent("A2", "Review", Iso(2), Iso(1), <<>>),
              RawEvent("A3", "", Iso(1), Iso(1), <<"Meeting">>)>>,
            <<RawEvent("A4", "Intro", Iso(1), Iso(2), <<>>),
              RawEvent("", "Ghost", Iso(1), Iso(2), <<>>),
              RawEvent("A1", "Standup", Iso(1), Iso(2), <<"Work", "Meeting">>)>>,
            <<RawEvent("A1", "Standup", Iso(1), Iso(2), <<"work">>),
              RawEvent("A5", "Retro", Iso(1), Iso(2), <<"Work", "Work">>),
              RawEvent("A6", "Lunch", NoDateTime, Iso(2), <<"Work">>)>>},
     B |-> {<<RawEvent("B1", "Sync", Iso(1), Iso(2), <<"Work">>)>>,
            <<RawEvent("B1", "Sync", Iso(1), Iso(2), <<"Meeting">>),
              RawEvent("B2", "Demo", Iso(2), Iso(2), <<>>),
              RawEvent("B3", "Plan", Iso(1), Iso(2), <<"Work">>)>>},
     C |-> {<<>>, <<RawEvent("C1", "Board", Iso(1), Iso(2), <<"Meeting">>)>>}]

\* The page of calendar cal at offset sk ($skip=sk&$top=BatchSize).
PageAt(cal, sk) ==
    SubSeq(cal, sk + 1, IF sk + BatchSize < Len(cal) THEN sk + BatchSize ELSE Len(cal))

\* What a page request can come back with: the page; no response (the POST
\* failed, or authentication did); a rate-limit signal (429) or another
\* non-200 status in the response; a response that cannot be read.
PageOutcomes == {"ok", "no_response", "rate_limited", "status_error", "malformed"}

----------------------------------------------------------------------------
(* process_event (calendar_sync.py:201-240) *)

\* _parse_date (500-510): None for a missing or unreadable string, else the
\* wall-clock instant of the string, stamped UTC.
ParseDate(d) == IF d.kind = "iso" THEN d.wall ELSE NullDate

\* event_data (210-221).  The page request does not select
\* lastModifiedDateTime, so last_modified is the current instant t.
EventDataOf(raw, user_email, t) ==
    EventData(raw.id, user_email, raw.organizer, raw.subject, raw.body,
              ParseDate(raw.start), ParseDate(raw.end), t, FALSE, raw.categories)

\* Whether process_event hands the event to upsert_event: only a missing id
\* makes it return False before (204-207).
ReachesUpsert(raw) == raw.id # ""

\* process_event(event, user_email): the store after it, and in upsert_log the
\* event, whether upsert_event was called and the value returned.
process_event(raw, user_email, db_error) ==
    IF ReachesUpsert(raw)
    THEN /\ upsert_event(EventDataOf(raw, user_email, now + 1), db_error)
         /\ upsert_log' = Append(upsert_log,
               [user |-> user_email, raw |-> raw, called |-> TRUE,
                ok |-> last_upsert'.result = "ok"])
    ELSE /\ UNCHANGED dbvars
         /\ upsert_log' = Append(upsert_log,
               [user |-> user_email, raw |-> raw, called |-> FALSE, ok |-> FALSE])

----------------------------------------------------------------------------
(* sync_calendar (calendar_sync.py:260-319) and what it calls *)

Mails(page) == [i \in 1..Len(page) |-> page[i].mail]

\* filtered_users (386): the users of a page that have a mail address.
FilteredUsers(page) == SelectSeq(Mails(page), LAMBDA m : m # "")

\* Mutant of ExtendEvents: the page replaces what was accumulated.
ExtendEventsOverwrite(all, page) == page

\* Mutant of ExtendEvents: each page is put in front of the earlier ones.
ExtendEventsPrepend(all, page) == page \o all

\* all_events.extend(events_in_batch) (482)
ExtendEvents(all, page) == all \o page

\* Mutant of FetchError: the pages accumulated so far are returned.
FetchErrorPartial(all) == [ok |-> TRUE, raised |-> FALSE, events |-> all]

\* "return None" of get_calendar_events_batch (461, 473, 491)
FetchError(all) == [ok |-> FALSE, raised |-> FALSE, events |-> <<>>]

FetchRaised == [ok |-> FALSE, raised |-> TRUE, events |-> <<>>]

\* The value sync_calendar hands to its caller when it returns: both return
\* statements are bare (274, 291) and the loop's end falls off the try block, so
\* the value is None in each case.
ReturnValue(result) == IF result = "returned" THEN "None" ELSE "no_value"

\* Python's truth value of a returned value.
Truthy(v) == v = "True"

\* The run after the mailbox at position i of n: the next mailbox, or the end of
\* the loop, where sync_calendar returns (None).
NextMailbox(i, n) ==
    IF i < n THEN [pc |-> "fetch_start", user_idx |-> i + 1, run_result |-> "none"]
             ELSE [pc |-> "done", user_idx |-> i, run_result |-> "returned"]

\* Mutant of AfterFetchFailure: a failed mailbox ends the run.
AfterFetchFailureAbort(i, n) ==
    [pc |-> "done", user_idx |-> i, run_result |-> "raised"]

\* The loop body after a fetch that returned None ("if events:" is false, 308-311)
\* or raised ("except ...: continue", 313-315).
AfterFetchFailure(i, n) == NextMailbox(i, n)

Goto(next) ==
    /\ pc' = next.pc
    /\ user_idx' = next.user_idx
    /\ run_result' = next.run_result

\* sync_calendar is called.
StartRun ==
    /\ pc = "idle"
    /\ pc' = "auth"
    /\ UNCHANGED <<dbvars, remote, auxvars, run_no, run_result, list_page, users, user_idx, skip,
                   all_events, events, ev_idx, success_count, page_log,
                   fetch_log, upsert_log, run_log>>

\* Mutant of Authenticate: the listing starts whatever authenticate returned.
AuthenticateUnchecked ==
    /\ pc = "auth"
    /\ \E authenticated \in BOOLEAN :
          run_log' = Append(run_log,
              [step |-> "auth", outcome |-> IF authenticated THEN "ok" ELSE "failed"])
    /\ pc' = "list"
    /\ UNCHANGED <<dbvars, remote, auxvars, run_no, run_result, list_page, users, user_idx, skip,
                   all_events, events, ev_idx, success_count, page_log, fetch_log,
                   upsert_log>>

\* self.authenticate() (272-274): on failure the run logs and returns.
Authenticate ==
    /\ pc = "auth"
    /\ \E authenticated \in BOOLEAN :
          /\ run_log' = Append(run_log,
                [step |-> "auth", outcome |-> IF authenticated THEN "ok" ELSE "failed"])
          /\ IF authenticated
             THEN pc' = "list" /\ run_result' = run_result
             ELSE pc' = "done" /\ run_result' = "returned"
    /\ UNCHANGED <<dbvars, remote, auxvars, run_no, list_page, users, user_idx, skip, all_events,
                   events, ev_idx, success_count, page_log, fetch_log,
                   upsert_log>>

\* The end of get_users_batch with all_users = us, back in sync_calendar
\* (287-294): no users, return; else the loop starts at the first user.
Listed(us) ==
    /\ users' = us
    /\ IF us = <<>>
       THEN pc' = "done" /\ run_result' = "returned" /\ user_idx' = user_idx
       ELSE pc' = "fetch_start" /\ run_result' = run_result /\ user_idx' = 1

\* One iteration of get_users_batch's loop (374-393): a falsy response breaks the
\* loop with the users listed so far, an exception is raised through
\* sync_calendar (398-400, 317-319).
ListPage ==
    /\ pc = "list"
    /\ \E outcome \in {"ok", "no_response", "raise"} :
        /\ run_log' = Append(run_log, [step |-> "list", outcome |-> outcome])
        /\ CASE outcome = "ok" ->
                  LET us == users \o FilteredUsers(UserPages[list_page])
                  IN  IF list_page < Len(UserPages)
                      THEN /\ users' = us
                           /\ list_page' = list_page + 1
                           /\ UNCHANGED <<pc, run_result, user_idx>>
                      ELSE Listed(us) /\ list_page' = list_page
            [] outcome = "no_response" -> Listed(users) /\ list_page' = list_page
            [] outcome = "raise" ->
                  /\ pc' = "done"
                  /\ run_result' = "raised"
                  /\ users' = <<>>
                  /\ UNCHANGED <<user_idx, list_page>>
    /\ UNCHANGED <<dbvars, remote, auxvars, run_no, skip, all_events, events, ev_idx, success_count,
                   page_log, fetch_log, upsert_log>>

\* get_calendar_events_batch up to its loop (416-438): the timezone lookup and
\* ZoneInfo() may raise, which sync_calendar catches (313-315).
FetchStart ==
    /\ pc = "fetch_start"
    /\ \E raises \in BOOLEAN :
          IF raises
          THEN /\ events' = FetchRaised
               /\ fetch_log' = Append(fetch_log,
                                      [user |-> users[user_idx], outcome |-> "raised"])
               /\ Goto(AfterFetchFailure(user_idx, Len(users)))
          ELSE /\ events' = NoFetch
               /\ fetch_log' = fetch_log
               /\ pc' = "fetch_page"
               /\ UNCHANGED <<user_idx, run_result>>
    /\ skip' = 0
    /\ all_events' = <<>>
    /\ UNCHANGED <<dbvars, remote, auxvars, run_no, list_page, users, ev_idx, success_count,
                   page_log, upsert_log, run_log>>

\* get_calendar_events_batch returns result to sync_calendar (306-315): a
\* non-empty list is processed ("if events:"), an empty one or None is not.
Returned(result, user) ==
    /\ events' = result
    /\ fetch_log' = Append(fetch_log,
                           [user |-> user, outcome |-> IF result.ok THEN "ok" ELSE "failed"])
    /\ IF result.ok /\ result.events # <<>>
       THEN /\ pc' = "process"
            /\ ev_idx' = 1
            /\ success_count' = 0
            /\ UNCHANGED <<user_idx, run_result>>
       ELSE /\ Goto(IF result.ok THEN NextMailbox(user_idx, Len(users))
                                 ELSE AfterFetchFailure(user_idx, Len(users)))
            /\ UNCHANGED <<ev_idx, success_count>>

\* Mutant of NextSkip: the offset advances by the number of events received.
NextSkipByPageLength(sk, page) == sk + Len(page)

\* "skip += batch_size" after a non-empty page (482)
NextSkip(sk, page) == sk + BatchSize

\* One iteration of the page loop (440-491): any outcome but a readable 200
\* response returns None at once; a non-empty page is appended and the next
\* offset requested; an empty page ends the loop and all_events is returned.
FetchPage ==
    /\ pc = "fetch_page"
    /\ \E outcome \in PageOutcomes :
          LET user == users[user_idx]
              page == PageAt(remote[user], skip)
          IN  /\ page_log' = Append(page_log,
                                    [user |-> user, skip |-> skip, outcome |-> outcome])
              /\ IF outcome # "ok"
                 THEN /\ Returned(FetchError(all_events), user)
                      /\ UNCHANGED <<skip, all_events>>
                 ELSE IF page # <<>>
                 THEN /\ all_events' = ExtendEvents(all_events, page)
                      /\ skip' = NextSkip(skip, page)
                      /\ UNCHANGED <<events, fetch_log, pc, user_idx, run_result,
                                     ev_idx, success_count>>
                 ELSE /\ Returned([ok |-> TRUE, raised |-> FALSE, events |-> all_events],
                                  user)
                      /\ UNCHANGED <<skip, all_events>>
    /\ UNCHANGED <<dbvars, remote, auxvars, run_no, list_page, users, upsert_log, run_log>>

\* Mutant of LoopContinues: an event that process_event returned False for
\* ends the loop.
LoopStopsOnFalse(result, i, total_events) == result /\ i < total_events

\* Whether process_events' for loop (250-256) has another iteration after event
\* i of total_events, for which process_event returned result: the result only
\* feeds success_count.
LoopContinues(result, i, total_events) == i < total_events

\* One iteration of process_events' loop (250-256); after the last event the
\* run goes on to the next mailbox.
ProcessEvent ==
    /\ pc = "process"
    /\ \E db_error \in BOOLEAN :
          process_event(events.events[ev_idx], users[user_idx], db_error)
    /\ success_count' = IF upsert_log'[Len(upsert_log')].ok
                        THEN success_count + 1 ELSE success_count
    /\ IF LoopContinues(upsert_log'[Len(upsert_log')].ok, ev_idx, Len(events.events))
       THEN ev_idx' = ev_idx + 1 /\ UNCHANGED <<pc, user_idx, run_result>>
       ELSE ev_idx' = ev_idx /\ Goto(NextMailbox(user_idx, Len(users)))
    /\ UNCHANGED <<remote, auxvars, run_no, list_page, users, skip, all_events, events, page_log,
                   fetch_log, run_log>>

Init ==
    /\ DbInit
    /\ RunInit
    /\ AuxInit
    /\ remote \in [Mailboxes -> UNION {Calendars[m] : m \in Mailboxes}]
    /\ \A m \in Mailboxes : remote[m] \in Calendars[m]

Next == StartRun \/ Authenticate \/ ListPage \/ FetchStart \/ FetchPage \/ ProcessEvent

Spec == Init /\ [][Next]_vars

----------------------------------------------------------------------------
(* SpecRuns: sync_calendar called again and again, as main.py's schedule does
   (main.py:60-73), with the mailboxes' calendars changing between two runs, and
   with every request of a run answered and no error injected into the server:
   the runs "without failure" that convergence is about. *)

\* Between two runs (the earlier one has returned, the next has not started)
\* the calendar of a mailbox changes: events are added, removed or edited
\* remotely.
RemoteChange ==
    /\ pc = "idle"
    /\ run_no > 1
    /\ \E m \in Mailboxes :
          \E cal \in Calendars[m] \ {remote[m]} : remote' = [remote EXCEPT ![m] = cal]
    /\ UNCHANGED <<dbvars, runvars, auxvars>>

\* The next scheduled call of sync_calendar: a new run starts from scratch, the
\* store is what the earlier runs left.
NextRun ==
    /\ pc = "done"
    /\ run_no < MaxRuns
    /\ run_no' = run_no + 1
    /\ pc' = "idle" /\ run_result' = "none" /\ list_page' = 1 /\ users' = <<>>
    /\ user_idx' = 0 /\ skip' = 0 /\ all_events' = <<>> /\ events' = NoFetch
    /\ ev_idx' = 0 /\ success_count' = 0
    /\ page_log' = <<>> /\ fetch_log' = <<>> /\ upsert_log' = <<>> /\ run_log' = <<>>
    /\ UNCHANGED <<dbvars, remote, auxvars>>

\* Nothing has failed in the run so far: authenticate succeeded, every listing
\* and page request was answered, no fetch raised, and the server raised no
\* error but for the constraints of the staging tables.
FaultFree ==
    /\ \A i \in 1..Len(run_log) : run_log[i].outcome = "ok"
    /\ \A i \in 1..Len(page_log) : page_log[i].outcome = "ok"
    /\ \A i \in 1..Len(fetch_log) : fetch_log[i].outcome = "ok"
    /\ last_upsert.result # "db_error"

NextRuns == (Next /\ FaultFree') \/ RemoteChange \/ NextRun

SpecRuns == Init /\ [][NextRuns]_vars

----------------------------------------------------------------------------
(* SpecTxn: upsert_events_batch statement by statement, on two connections of
   the pool at once (database.py:27-38, 127-298).  The isolation level is READ
   COMMITTED (33): a row a transaction has written stays locked until it commits
   or rolls back, a statement that reads or writes a row locked by the other
   transaction waits for it, and a row that does not exist is not locked.  The
   MERGE statements carry no HOLDLOCK hint (213, 241), so each one first matches
   its source against the target and then writes, and the other transaction may
   run in between.  Waits are taken to end before LOCK_TIMEOUT (34, 134). *)

Other(w) == CHOOSE o \in Workers : o # w

\* The events two overlapping sync runs upsert: the same event with different
\* fields and categories, and another event that shares a category.
TxnInputs ==
    {DbEvent("E1", [subject |-> "Standup", last_modified |-> 2, is_deleted |-> FALSE],
             <<"Work">>),
     DbEvent("E1", [subject |-> "Review", last_modified |-> 1, is_deleted |-> TRUE],
             <<"Meeting">>),
     DbEvent("E2", [subject |-> "Standup", last_modified |-> 2, is_deleted |-> FALSE],
             <<"Work">>)}

\* The connection is inside a transaction.  alone: no other transaction has
\* been open since this one began; before: the tables as it found them.
InFlight(w) == txn[w].pc \notin {"idle", "committed", "failed"}

SourceIds(evs) == {evs[i].event_id : i \in 1..Len(evs)}

\* The three tables as a transaction finds them.
Tables ==
    [calendar_event |-> calendar_event, calendar_category |-> calendar_category,
     calendar_event_calendar_category |-> calendar_event_calendar_category]

\* Mutant of UndoEvents: the event rows written stay.
UndoEventsNone(table, written, images) == table

\* conn.rollback() (282) on calendar_event: the rows the transaction wrote are
\* replaced by their images from before it.
UndoEvents(table, written, images) ==
    {r \in table : r.event_id \notin written} \cup images

\* conn.rollback() on calendar_category: the rows inserted are removed.
UndoCategories(table, inserted) == {cc \in table : cc.category_id \notin inserted}

\* conn.rollback() on the link table: inserted rows removed, deleted rows back.
UndoLinks(table, inserted, deleted) == (table \ inserted) \cup deleted

\* The connection once its transaction is over: what was upserted, when and how
\* it ended; its locks are released and its log is gone.
Ended(x, pc_, result_, step) ==
    [IdleTxn EXCEPT !.pc = pc_, !.result = result_, !.failed_at = step,
                    !.evs = x.evs, !.t = x.t]

TxnFrame == UNCHANGED <<collation, last_upsert, remote, auxvars, runvars>>

\* except ...: conn.rollback(); raise (281-284), for an error with the given
\* cause in the statement step.  The identity counter is not rolled back.
Rollback(w, step, cause) ==
    /\ calendar_event' =
          UndoEvents(calendar_event, txn[w].ev_written, txn[w].undo_events)
    /\ calendar_category' = UndoCategories(calendar_category, txn[w].cats_inserted)
    /\ calendar_event_calendar_category' =
          UndoLinks(calendar_event_calendar_category, txn[w].links_inserted,
                    txn[w].links_deleted)
    /\ next_category_id' = next_category_id
    /\ txn' = [txn EXCEPT ![w] = Ended(txn[w], "failed", cause, step)]

\* BEGIN TRANSACTION and the staging of the events in the connection's own temp
\* tables (135-210).
Begin(w) ==
    /\ txn[w].pc \in {"idle", "committed", "failed"}
    /\ now < MaxTxns
    /\ \E e \in TxnInputs, db_error \in BOOLEAN :
          \E temp \in TempCategories(<<e>>, collation) :
             LET staged == StagingOk(<<e>>, collation)
                 ok == staged /\ ~db_error
             IN  txn' = [txn EXCEPT
                    ![w] =
                       IF ok
                       THEN [IdleTxn EXCEPT !.pc = "staged", !.evs = <<e>>,
                                            !.temp = temp, !.t = now + 1,
                                            !.before = Tables,
                                            !.alone = ~InFlight(Other(w))]
                       ELSE [IdleTxn EXCEPT !.pc = "failed", !.failed_at = "staging",
                                            !.result = IF staged THEN "db_error"
                                                       ELSE "constraint",
                                            !.evs = <<e>>, !.t = now + 1],
                    ![Other(w)] = [@ EXCEPT !.alone = FALSE]]
    /\ now' = now + 1
    /\ UNCHANGED <<calendar_event, calendar_category,
                   calendar_event_calendar_category, next_category_id>>
    /\ TxnFrame

\* MERGE calendar_event, first half (212-216): the source rows are matched
\* against the target on event_id; a matched row is locked for the update.
MatchEvents(w) ==
    /\ txn[w].pc = "staged"
    /\ LET found == {r.event_id : r \in {x \in calendar_event :
                                            x.event_id \in SourceIds(txn[w].evs)}}
       IN  /\ found \cap txn[Other(w)].ev_locks = {}
           /\ \E db_error \in BOOLEAN :
                 IF db_error
                 THEN Rollback(w, "merge_events", "db_error")
                 ELSE /\ txn' = [txn EXCEPT ![w] =
                                   [@ EXCEPT !.pc = "events_matched", !.matched = found,
                                             !.ev_locks = found]]
                      /\ UNCHANGED <<calendar_event, calendar_category,
                                     calendar_event_calendar_category, next_category_id>>
    /\ now' = now
    /\ TxnFrame

\* MERGE calendar_event, second half (217-238): matched rows are updated,
\* unmatched sources inserted.  An insert of an event_id that has a row by now
\* violates the primary key (312).
WriteEvents(w) ==
    /\ txn[w].pc = "events_matched"
    /\ LET ids == SourceIds(txn[w].evs)
           present == {r.event_id : r \in {x \in calendar_event :
                                              x.event_id \in ids \ txn[w].matched}}
       IN  /\ present \cap txn[Other(w)].ev_locks = {}
           /\ IF present # {}
              THEN Rollback(w, "merge_events", "pk_violation")
              ELSE /\ calendar_event' = MergeEvents(calendar_event, txn[w].evs, txn[w].t)
                   /\ txn' = [txn EXCEPT ![w] =
                                [@ EXCEPT !.pc = "events_merged", !.ev_locks = ids,
                                          !.ev_written = ids,
                                          !.undo_events = {r \in calendar_event :
                                                              r.event_id \in ids}]]
                   /\ UNCHANGED <<calendar_category, calendar_event_calendar_category,
                                  next_category_id>>
    /\ now' = now
    /\ TxnFrame

\* The category rows that carry a name of the transaction's source.
NamedRows(w) ==
    {cc \in calendar_category :
        \E n \in txn[w].temp : SameName(cc.name, n, collation)}

\* A statement of w that reads calendar_category by name has to wait: a row it
\* reads was inserted by the other transaction and is not committed.
WaitsForCategory(w) ==
    \E cc \in NamedRows(w) : cc.category_id \in txn[Other(w)].cat_locks

\* MERGE calendar_category, first half (240-245): the source names are matched
\* against the target on name.
MatchCategories(w) ==
    /\ txn[w].pc = "events_merged"
    /\ ~WaitsForCategory(w)
    /\ \E db_error \in BOOLEAN :
          IF db_error
          THEN Rollback(w, "merge_categories", "db_error")
          ELSE /\ txn' = [txn EXCEPT ![w] =
                            [@ EXCEPT !.pc = "categories_matched",
                                      !.new_names =
                                         {n \in txn[w].temp :
                                             \A cc \in calendar_category :
                                                ~SameName(cc.name, n, collation)}]]
               /\ UNCHANGED <<calendar_event, calendar_category,
                              calendar_event_calendar_category, next_category_id>>
    /\ now' = now
    /\ TxnFrame

\* MERGE calendar_category, second half (246-248): the unmatched names are
\* inserted.  An insert of a name that has a row by now violates the UNIQUE
\* constraint on name (330).
WriteCategories(w) ==
    /\ txn[w].pc = "categories_matched"
    /\ ~WaitsForCategory(w)
    /\ LET clash == {cc \in calendar_category :
                        \E n \in txn[w].new_names : SameName(cc.name, n, collation)}
           cats == MergeCategories(calendar_category, txn[w].temp, next_category_id,
                                   collation, txn[w].t)
           ids == {cc.category_id : cc \in cats \ calendar_category}
       IN  IF clash # {}
           THEN Rollback(w, "merge_categories", "unique_violation")
           ELSE /\ calendar_category' = cats
                /\ next_category_id' = next_category_id + Cardinality(ids)
                /\ txn' = [txn EXCEPT ![w] =
                             [@ EXCEPT !.pc = "categories_merged", !.cat_locks = ids,
                                       !.cats_inserted = ids]]
                /\ UNCHANGED <<calendar_event, calendar_event_calendar_category>>
    /\ now' = now
    /\ TxnFrame

\* DELETE ec ... (253-262)
DeleteLinks(w) ==
    /\ txn[w].pc = "categories_merged"
    /\ ~WaitsForCategory(w)
    /\ \E db_error \in BOOLEAN :
          IF db_error
          THEN Rollback(w, "delete_links", "db_error")
          ELSE LET stale == StaleLinks(calendar_event_calendar_category,
                                       calendar_category, txn[w].evs, collation)
               IN  /\ calendar_event_calendar_category' =
                         calendar_event_calendar_category \ stale
                   /\ txn' = [txn EXCEPT ![w] =
                                [@ EXCEPT !.pc = "links_deleted", !.links_deleted = stale]]
                   /\ UNCHANGED <<calendar_event, calendar_category, next_category_id>>
    /\ now' = now
    /\ TxnFrame

\* INSERT INTO calendar_event_calendar_category ... (265-274)
InsertLinks(w) ==
    /\ txn[w].pc = "links_deleted"
    /\ ~WaitsForCategory(w)
    /\ \E db_error \in BOOLEAN :
          IF db_error
          THEN Rollback(w, "insert_links", "db_error")
          ELSE LET new == NewLinks(calendar_event_calendar_category, calendar_category,
                                   txn[w].evs, collation, txn[w].t)
               IN  /\ calendar_event_calendar_category' =
                         calendar_event_calendar_category \cup new
                   /\ txn' = [txn EXCEPT ![w] =
                                [@ EXCEPT !.pc = "links_inserted", !.links_inserted = new]]
                   /\ UNCHANGED <<calendar_event, calendar_category, next_category_id>>
    /\ now' = now
    /\ TxnFrame

\* conn.commit() (277): the writes become permanent and the locks are released;
\* if the connection fails instead, the server rolls the transaction back.
Commit(w) ==
    /\ txn[w].pc = "links_inserted"
    /\ \E db_error \in BOOLEAN :
          IF db_error
          THEN Rollback(w, "commit", "db_error")
          ELSE /\ txn' = [txn EXCEPT ![w] = Ended(txn[w], "committed", "ok", "none")]
               /\ UNCHANGED <<calendar_event, calendar_category,
                              calendar_event_calendar_category, next_category_id>>
    /\ now' = now
    /\ TxnFrame

InitTxn ==
    /\ DbInit
    /\ RunInit
    /\ AuxInit
    /\ remote = [m \in Mailboxes |-> <<>>]

NextTxn ==
    \E w \in Workers :
        \/ Begin(w)
        \/ MatchEvents(w)
        \/ WriteEvents(w)
        \/ MatchCategories(w)
        \/ WriteCategories(w)
        \/ DeleteLinks(w)
        \/ InsertLinks(w)
        \/ Commit(w)

SpecTxn == InitTxn /\ [][NextTxn]_vars

----------------------------------------------------------------------------
(* SpecCrash: the process is killed somewhere in a run and sync_calendar is
   called again later, the mailboxes' calendars being the same. *)

\* Mutant of ServerRollback: the row written by the killed transaction stays.
ServerRollbackNone(table, e, t) == MergeEvents(table, <<e>>, t)

\* The process dies inside upsert_events_batch, after MERGE calendar_event and
\* before conn.commit() (database.py:212-277): the connection is lost and the
\* server rolls the open transaction back.
ServerRollback(table, e, t) ==
    UndoEvents(MergeEvents(table, <<e>>, t), {e.event_id},
               {r \in table : r.event_id = e.event_id})

\* The process is killed: before or between two requests, between two mailboxes,
\* between two events, or (in_txn) inside the transaction of the next event.
Kill ==
    /\ pc \in {"auth", "list", "fetch_start", "fetch_page", "process"}
    /\ pc' = "done"
    /\ run_result' = "killed"
    /\ \E in_txn \in BOOLEAN :
          IF in_txn /\ pc = "process" /\ ReachesUpsert(events.events[ev_idx])
          THEN calendar_event' =
                  ServerRollback(calendar_event,
                                 EventDataOf(events.events[ev_idx], users[user_idx],
                                             now + 1),
                                 now + 1)
          ELSE calendar_event' = calendar_event
    /\ UNCHANGED <<calendar_category, calendar_event_calendar_category,
                   next_category_id, collation, now, last_upsert, txn, remote, auxvars,
                   run_no, list_page, users, user_idx, skip, all_events, events, ev_idx,
                   success_count, page_log, fetch_log, upsert_log, run_log>>

NextCrash == (Next /\ FaultFree') \/ Kill \/ NextRun

SpecCrash == Init /\ [][NextCrash]_vars

----------------------------------------------------------------------------
(* Soft delete between runs (tests/test_database_sync.py:129-160) *)

\* mark_event_deleted(event_id): the row of event_id is flagged, nothing is removed.
mark_event_deleted(table, id) ==
    {IF r.event_id = id THEN [r EXCEPT !.is_deleted = TRUE] ELSE r : r \in table}

\* A local caller marks a stored event deleted while no run is under way.
MarkEventDeleted ==
    /\ pc = "idle"
    /\ run_no > 1
    /\ \E r \in calendar_event :
          /\ ~r.is_deleted
          /\ calendar_event' = mark_event_deleted(calendar_event, r.event_id)
    /\ UNCHANGED <<calendar_category, calendar_event_calendar_category,
                   next_category_id, collation, now, last_upsert, txn, remote, auxvars,
                   runvars>>

\* The same call, with the id it was made for kept in marked.
MarkEventDeletedNoted ==
    /\ pc = "idle"
    /\ run_no > 1
    /\ \E r \in calendar_event :
          /\ ~r.is_deleted
          /\ calendar_event' = mark_event_deleted(calendar_event, r.event_id)
          /\ marked' = marked \cup {r.event_id}
    /\ UNCHANGED <<calendar_category, calendar_event_calendar_category,
                   next_category_id, collation, now, last_upsert, txn, remote, poolvars,
                   auth, request, staging, runvars>>

\* SpecResync: a run, a local caller marking events deleted after it, and a
\* second run over the same calendars.
NextResync == (Next /\ FaultFree') \/ NextRun \/ MarkEventDeletedNoted

SpecResync == Init /\ [][NextResync]_vars

NextLocal == (Next /\ FaultFree') \/ RemoteChange \/ NextRun \/ MarkEventDeleted

SpecLocal == Init /\ [][NextLocal]_vars

----------------------------------------------------------------------------
(* get_events (calendar_sync.py:321-335) *)

\* Arguments of get_events: a date is None (NullDate) or an instant; a category
\* is None or "" (both falsy, "" here) or a name.
QueryDates == {NullDate, 1, 2}
QueryCategories == {"", "Work"}
QueryUsers == {"", "A"}

\* self.db.get_events_by_category(category, user_email): DatabaseManager has no
\* such method, the attribute lookup raises; with the method in place it runs
\* one query and returns its rows.
get_events_by_category == {[outcome |-> "AttributeError", queries |-> 0],
                           [outcome |-> "rows", queries |-> 1]}

\* self.db.get_events_by_date_range(start_date, end_date, user_email): the
\* method takes (start_date, end_date) only (database.py:394), the call raises
\* before the body runs.
get_events_by_date_range == {[outcome |-> "TypeError", queries |-> 0]}

RaisesValueError == {[outcome |-> "ValueError", queries |-> 0]}

\* The branches of get_events, in the order the code tests them; the except
\* branch logs and re-raises whatever was raised.
get_events(start_date, end_date, category) ==
    IF category # ""
    THEN get_events_by_category
    ELSE IF start_date # NullDate /\ end_date # NullDate
         THEN IF end_date < start_date
              THEN RaisesValueError
              ELSE get_events_by_date_range
         ELSE RaisesValueError

GetEvents ==
    /\ \E sd \in QueryDates, ed \in QueryDates, cat \in QueryCategories, u \in QueryUsers :
          \E r \in get_events(sd, ed, cat) :
              get_events_call' = [start_date |-> sd, end_date |-> ed, category |-> cat,
                                  user_email |-> u, outcome |-> r.outcome,
                                  queries |-> r.queries]
    /\ UNCHANGED <<dbvars, remote, runvars, pool, tz_cache, downloads, tz_call, main, window,
                   callvars>>

InitQuery ==
    /\ DbInit
    /\ RunInit
    /\ AuxInit
    /\ remote \in [Mailboxes -> UNION {Calendars[m] : m \in Mailboxes}]
    /\ \A m \in Mailboxes : remote[m] \in Calendars[m]

NextQuery == GetEvents

SpecQuery == InitQuery /\ [][NextQuery]_vars

----------------------------------------------------------------------------
(* Timezone resolution (calendar_sync.py:65-88, 123-173) *)

SystemZone == "Etc/System"      \* str(get_localzone())

\* tzlocal.windows_tz.win_tz: the local alias table.
win_tz ==
    [l \in {"W. Europe Standard Time", "Pacific Standard Time"} |->
        IF l = "Pacific Standard Time" THEN <<"America/Los_Angeles">>
                                       ELSE <<"Europe/Berlin">>]

\* windowsZones.xml: mapZone other=label, territory=001 -> type.
windowsZones ==
    [l \in {"W. Europe Standard Time", "Pacific Standard Time", "Zone A", "Zone B"} |->
        CASE l = "W. Europe Standard Time" -> "Europe/Berlin"
          [] l = "Pacific Standard Time"   -> "America/Los_Angeles"
          [] l = "Zone A"                  -> "Etc/A"
          [] OTHER                         -> "Etc/B"]

\* Mutant of windows_to_iana: the table is downloaded on every call and the
\* cache is not consulted.
windows_to_iana_uncached(cache, log, label, download_ok) ==
    LET v == IF download_ok /\ label \in DOMAIN windowsZones
             THEN windowsZones[label] ELSE ""
    IN  [value |-> v, cache |-> [cache EXCEPT ![label] = v], log |-> Append(log, label)]

\* windows_to_iana(windows_tz) under lru_cache: a label seen before is answered
\* from the cache; otherwise the table is downloaded and searched, and the
\* result, None ("") included (no mapping, or the download failed), is cached.
\* The cache holds 128 labels; the model has fewer, nothing is evicted.
windows_to_iana(cache, log, label, download_ok) ==
    IF cache[label] # "miss"
    THEN [value |-> cache[label], cache |-> cache, log |-> log]
    ELSE LET v == IF download_ok /\ label \in DOMAIN windowsZones
                  THEN windowsZones[label] ELSE ""
         IN  [value |-> v, cache |-> [cache EXCEPT ![label] = v],
              log |-> Append(log, label)]

\* The call reaches the CLDR fallback (155-160).
ReachesRemote(auth_ok, response, label) ==
    /\ auth_ok
    /\ response = "ok"
    /\ label \notin {"", "W. Europe Standard Time"}
    /\ label \notin DOMAIN win_tz

\* Mutant of get_user_timezone: the local alias table is tried before the override.
get_user_timezone_local_first(auth_ok, response, label, remote_value) ==
    IF ~auth_ok \/ response # "ok" \/ label = "" THEN SystemZone
    ELSE IF label \in DOMAIN win_tz THEN win_tz[label][1]
    ELSE IF label = "W. Europe Standard Time" THEN "Europe/Amsterdam"
    ELSE IF remote_value \notin {"", "not_called"} THEN remote_value
    ELSE SystemZone

\* get_user_timezone: what it returns.  Authentication failing, a falsy
\* response and any exception on the way (123-131, 166-173) give the system
\* zone; so does a mailbox without a timeZone setting.
get_user_timezone(auth_ok, response, label, remote_value) ==
    IF ~auth_ok \/ response # "ok" \/ label = "" THEN SystemZone
    ELSE IF label = "W. Europe Standard Time" THEN "Europe/Amsterdam"
    ELSE IF label \in DOMAIN win_tz THEN win_tz[label][1]
    ELSE IF remote_value \notin {"", "not_called"} THEN remote_value
    ELSE SystemZone

\* One call of get_user_timezone for a mailbox.
ResolveTimezone ==
    /\ \E auth_ok \in BOOLEAN, response \in {"ok", "falsy", "raised"},
          label \in TzLabels \cup {""}, download_ok \in BOOLEAN :
          LET r == IF ReachesRemote(auth_ok, response, label)
                   THEN windows_to_iana(tz_cache, downloads, label, download_ok)
                   ELSE [value |-> "not_called", cache |-> tz_cache, log |-> downloads]
          IN  /\ tz_cache' = r.cache
              /\ downloads' = r.log
              /\ tz_call' = [auth_ok |-> auth_ok, response |-> response, label |-> label,
                             remote |-> r.value,
                             result |-> get_user_timezone(auth_ok, response, label,
                                                          r.value),
                             outcome |-> "returned"]
    /\ UNCHANGED <<dbvars, remote, runvars, pool, get_events_call, main, window, callvars>>

InitTz ==
    /\ DbInit
    /\ RunInit
    /\ AuxInit
    /\ remote = [m \in Mailboxes |-> <<>>]

NextTz == ResolveTimezone

SpecTz == InitTz /\ [][NextTz]_vars

----------------------------------------------------------------------------
(* main and sync_job (main.py:8-75) *)

MainFrame == UNCHANGED <<dbvars, remote, pool, get_events_call, tz_cache, downloads,
                         tz_call, window, callvars>>

\* Mutant of AfterSyncJob: main enters the scheduling loop in either mode.
AfterSyncJobLoops(mode) == "loop"

\* Mutant of AfterSyncJob: main returns after a sync in either mode.
AfterSyncJobExits(mode) == "exited"

\* Where main goes on when sync_job has returned: with --date it logs and
\* returns (49-51), without it schedules the job and loops (57-65).
AfterSyncJob(mode) == IF mode = "one_shot" THEN "exited" ELSE "loop"

\* sync_job is being executed.
InSyncJob == main.pc = "sync_job"

\* args = parser.parse_args(); the first call of sync_job (49 or 57).
MainBegin(date_given) ==
    /\ main.pc = "start"
    /\ main' = [main EXCEPT !.mode = IF date_given THEN "one_shot" ELSE "continuous",
                            !.pc = "sync_job", !.jobs = 1]
    /\ UNCHANGED runvars
    /\ MainFrame

\* CalendarSync() raises in sync_job (16: the database is unreachable, the
\* configuration is incomplete): the except branch logs, sync_calendar is not
\* called.
SyncJobRaises ==
    /\ InSyncJob
    /\ pc = "idle"
    /\ main' = [main EXCEPT !.pc = AfterSyncJob(main.mode)]
    /\ UNCHANGED runvars
    /\ MainFrame

\* sync_calendar has returned or raised: sync_job returns either way (23-25).
SyncJobReturn ==
    /\ InSyncJob
    /\ pc = "done"
    /\ main' = [main EXCEPT !.pc = AfterSyncJob(main.mode)]
    /\ UNCHANGED runvars
    /\ MainFrame

\* One iteration of "while True" (65-75): no job is due and the loop sleeps a
\* second; the job is due and sync_job is called; or something raises and the
\* loop logs and sleeps 60 seconds.
RunPending ==
    /\ main.pc = "loop"
    /\ \E outcome \in {"not_due", "due", "error"} :
          CASE outcome = "not_due" -> UNCHANGED <<main, runvars>>
            [] outcome = "due" ->
                  /\ main.jobs < MaxRuns
                  /\ main' = [main EXCEPT !.pc = "sync_job", !.jobs = main.jobs + 1]
                  /\ run_no' = main.jobs + 1
                  /\ pc' = "idle" /\ run_result' = "none" /\ list_page' = 1
                  /\ users' = <<>> /\ user_idx' = 0 /\ skip' = 0 /\ all_events' = <<>>
                  /\ events' = NoFetch /\ ev_idx' = 0 /\ success_count' = 0
                  /\ page_log' = <<>> /\ fetch_log' = <<>> /\ upsert_log' = <<>>
                  /\ run_log' = <<>>
            [] outcome = "error" ->
                  /\ main' = [main EXCEPT !.pc = "cooldown", !.errors = 1]
                  /\ UNCHANGED runvars
    /\ MainFrame

\* time.sleep(60) of the except branch is over.
Cooldown ==
    /\ main.pc = "cooldown"
    /\ main' = [main EXCEPT !.pc = "loop"]
    /\ UNCHANGED runvars
    /\ MainFrame

\* KeyboardInterrupt: in the loop it is caught and breaks the loop (69-71),
\* anywhere else it ends main as an uncaught exception.
Interrupt ==
    /\ main.pc \in {"sync_job", "loop", "cooldown"}
    /\ main' = [main EXCEPT !.pc = "exited", !.interrupted = TRUE]
    /\ UNCHANGED runvars
    /\ MainFrame

\* main --date D: one sync, any failure possible.
NextOneShot == MainBegin(TRUE) \/ SyncJobRaises \/ (Next /\ InSyncJob) \/ SyncJobReturn

SpecOneShot == Init /\ [][NextOneShot]_vars

\* A sync_job, once called, goes on until it returns.
SpecOneShotFair == SpecOneShot /\ WF_vars(NextOneShot)

\* The failures of a sync in the loop: authenticate and the listing may fail,
\* the fetches and the upserts do not.
LoopFaults ==
    /\ \A i \in 1..Len(page_log) : page_log[i].outcome = "ok"
    /\ \A i \in 1..Len(fetch_log) : fetch_log[i].outcome = "ok"
    /\ last_upsert.result # "db_error"

LoopSteps ==
    \/ MainBegin(FALSE)
    \/ SyncJobRaises
    \/ (Next /\ InSyncJob /\ LoopFaults')
    \/ SyncJobReturn
    \/ RunPending
    \/ Cooldown

NextLoop == LoopSteps \/ Interrupt

SpecLoop == Init /\ [][NextLoop]_vars

\* Time passes and the process is scheduled; the interrupt may never come.
SpecLoopFair == SpecLoop /\ WF_vars(LoopSteps)

----------------------------------------------------------------------------
(* sync_calendar's validation of its window (calendar_sync.py:276-283) *)

\* Mutant of ValidWindow: no window is rejected.
AnyWindow(w) == TRUE

\* "if end_date < start_date: raise ValueError" (282-283), negated.
ValidWindow(w) == ~(w.end_date < w.start_date)

\* The step between authenticate and get_users: an invalid window raises
\* ValueError, which the except branch logs and re-raises (317-319).
ValidateWindow ==
    /\ pc = "list"
    /\ ~window.checked
    /\ window' = [window EXCEPT !.checked = TRUE]
    /\ IF ValidWindow(window)
       THEN UNCHANGED <<pc, run_result, run_log>>
       ELSE /\ pc' = "done"
            /\ run_result' = "raised"
            /\ run_log' = Append(run_log, [step |-> "validate", outcome |-> "ValueError"])
    /\ UNCHANGED <<dbvars, remote, pool, get_events_call, tz_cache, downloads, tz_call,
                   main, callvars, run_no, list_page, users, user_idx, skip, all_events, events,
                   ev_idx, success_count, page_log, fetch_log, upsert_log>>

\* A caller of sync_calendar with a window of its choice.
InitWindow ==
    /\ DbInit
    /\ RunInit
    /\ AuxInitCommon
    /\ window \in Windows
    /\ remote \in [Mailboxes -> UNION {Calendars[m] : m \in Mailboxes}]
    /\ \A m \in Mailboxes : remote[m] \in Calendars[m]

\* The run's steps, the listing waiting for the validation.
NextWindow == (Next /\ (pc = "list" => window.checked)) \/ ValidateWindow

SpecWindow == InitWindow /\ [][NextWindow]_vars

----------------------------------------------------------------------------
(* authenticate (calendar_sync.py:90-108) *)

\* What self.account.authenticate(scopes=...) does when it is called.
AccountOutcomes == {"True", "False", "raise"}

\* Mutant of authenticate: the account's authenticate is called whether or not
\* the account is authenticated already.
authenticate_always(is_authenticated, outcome) ==
    [result |-> IF outcome = "raise" THEN "False" ELSE outcome,
     account_calls |-> 1, raised |-> FALSE,
     is_authenticated |-> outcome = "True"]

\* authenticate(): True at once when the account is authenticated (93-95);
\* otherwise the result of account.authenticate (98-104), False when that
\* raises (105-107).
authenticate(is_authenticated, outcome) ==
    IF is_authenticated
    THEN [result |-> "True", account_calls |-> 0, raised |-> FALSE,
          is_authenticated |-> TRUE]
    ELSE [result |-> IF outcome = "raise" THEN "False" ELSE outcome,
          account_calls |-> 1, raised |-> FALSE,
          is_authenticated |-> outcome = "True"]

CallFrame == UNCHANGED <<dbvars, remote, runvars, poolvars>>

\* One call of authenticate.
AuthenticateCall ==
    /\ \E outcome \in AccountOutcomes :
          LET r == authenticate(auth.is_authenticated, outcome)
          IN  auth' = [is_authenticated |-> r.is_authenticated,
                       was_authenticated |-> auth.is_authenticated,
                       outcome |-> outcome, account_calls |-> r.account_calls,
                       result |-> r.result, raised |-> r.raised]
    /\ UNCHANGED <<request, staging, marked>>
    /\ CallFrame

\* The account's token expires.
TokenExpires ==
    /\ auth.is_authenticated
    /\ auth' = [auth EXCEPT !.is_authenticated = FALSE]
    /\ UNCHANGED <<request, staging, marked>>
    /\ CallFrame

NextAuth == AuthenticateCall \/ TokenExpires

SpecAuth == Init /\ [][NextAuth]_vars

----------------------------------------------------------------------------
(* _make_request_with_retry (calendar_sync.py:42-63) *)

\* What one GET comes back with: a truthy response, a 429, another failure
\* status, or an exception of the connection.
ResponseKinds == {"ok", "rate_limited", "status_error", "exception"}

\* Retry-After of a 429 in seconds; 5 is self.retry_delay, used when the header
\* is absent.
RetryAfter == {1, 2, 5}

\* Mutant of RetryContinues: "while retries <= self.max_retries".
RetryContinuesInclusive(retries) == retries <= MaxRetries

\* "while retries < self.max_retries" (45)
RetryContinues(retries) == retries < MaxRetries

\* _make_request_with_retry is called.
RequestStart ==
    /\ request.pc = "idle"
    /\ request' = [NoRequest EXCEPT !.pc = "loop"]
    /\ UNCHANGED <<auth, staging, marked>>
    /\ CallFrame

\* One iteration of the loop (45-61), or its end (62-63).
RequestAttempt ==
    /\ request.pc = "loop"
    /\ IF RetryContinues(request.retries)
       THEN \E kind \in ResponseKinds, retry_after \in RetryAfter :
               LET seen == Append(request.responses, kind)
               IN  CASE kind = "ok" ->
                          request' = [request EXCEPT !.responses = seen, !.pc = "done",
                                                     !.result = "response"]
                     [] kind = "rate_limited" ->
                          request' = [request EXCEPT
                                         !.responses = seen,
                                         !.sleeps = Append(request.sleeps, retry_after),
                                         !.retries = request.retries + 1]
                     [] OTHER ->
                          request' = [request EXCEPT !.responses = seen, !.pc = "done",
                                                     !.result = "None"]
       ELSE request' = [request EXCEPT !.pc = "done", !.result = "None"]
    /\ UNCHANGED <<auth, staging, marked>>
    /\ CallFrame

InitRetry ==
    /\ DbInit
    /\ RunInit
    /\ AuxInit
    /\ remote = [m \in Mailboxes |-> <<>>]

NextRetry == RequestStart \/ RequestAttempt

SpecRetry == InitRetry /\ [][NextRetry]_vars

----------------------------------------------------------------------------
(* SpecStaging: the staging tables of upsert_events_batch on the connections of
   the pool, statement by statement (database.py:40-69, 132-160, 277-294).  A
   connection is in manual-commit mode (pyodbc's default): a statement run
   while no transaction is open opens one.  A session is the server's side of a
   connection: temp_now, whether the staging tables exist; temp_committed,
   whether they did when the open transaction began (what a rollback brings
   back: DDL on temporary tables is transactional); trancount, the server's
   @@TRANCOUNT; written, whether the call's event has been merged and not yet
   committed. *)

\* The calls made in a row: enough for a connection to be borrowed a third time.
MaxUpserts == 2 * PoolSize + 1

\* What "BEGIN TRANSACTION" does to @@TRANCOUNT on a connection in manual-commit
\* mode with no transaction open: the statement opens the one transaction
\* ("flat"), or the implicit transaction and a nested one ("nested").
NestingModes == {"flat", "nested"}

\* A statement that opens a transaction when none is open.
Implicit(s) ==
    IF s.trancount = 0 THEN [s EXCEPT !.trancount = 1, !.temp_committed = s.temp_now]
    ELSE s

\* cursor.execute("BEGIN TRANSACTION") (135)
SessionBegin(s, mode) ==
    IF s.trancount = 0
    THEN [s EXCEPT !.trancount = IF mode = "nested" THEN 2 ELSE 1,
                   !.temp_committed = s.temp_now]
    ELSE [s EXCEPT !.trancount = s.trancount + 1]

\* conn.commit() (277): COMMIT takes one level off; the outermost makes the
\* transaction durable.
SessionCommit(s) ==
    IF s.trancount = 1
    THEN [s EXCEPT !.trancount = 0, !.temp_committed = s.temp_now, !.written = FALSE]
    ELSE IF s.trancount > 1 THEN [s EXCEPT !.trancount = s.trancount - 1]
    ELSE s

\* connection.rollback() (59, 282): ROLLBACK ends every level and undoes all the
\* open transaction did, the creation and the drop of temporary tables
\* included.
SessionRollback(s) ==
    IF s.trancount > 0
    THEN [s EXCEPT !.trancount = 0, !.temp_now = s.temp_committed, !.written = FALSE]
    ELSE s

\* "DROP TABLE IF EXISTS #temp_event_categories; ..." (288-292)
SessionDropTemp(s) == [Implicit(s) EXCEPT !.temp_now = FALSE]

StagingFrame ==
    /\ UNCHANGED <<auth, request, marked>>
    /\ CallFrame

\* get_connection (44): the connection at the head of the queue is borrowed.
StagingBorrow ==
    /\ staging.pc = "idle"
    /\ staging.calls < MaxUpserts
    /\ staging' = [staging EXCEPT !.connection = Head(staging.queue),
                                  !.queue = Tail(staging.queue),
                                  !.leftover = Head(staging.queue).temp_now,
                                  !.db_error = FALSE,
                                  !.failed = FALSE,
                                  !.pc = "begin"]
    /\ StagingFrame

\* SET LOCK_TIMEOUT; BEGIN TRANSACTION (134-135)
StagingBegin ==
    /\ staging.pc = "begin"
    /\ \E mode \in (IF staging.nesting = "unknown" THEN NestingModes
                    ELSE {staging.nesting}) :
          staging' = [staging EXCEPT !.nesting = mode,
                                     !.connection = SessionBegin(staging.connection, mode),
                                     !.pc = "create"]
    /\ StagingFrame

\* CREATE TABLE #temp_events ... (138-160): an error when the table exists.
StagingCreate ==
    /\ staging.pc = "create"
    /\ IF staging.connection.temp_now
       THEN staging' = [staging EXCEPT !.failed = TRUE, !.pc = "except"]
       ELSE staging' = [staging EXCEPT !.connection.temp_now = TRUE, !.pc = "merge"]
    /\ StagingFrame

\* The INSERTs into the staging tables and the MERGEs (162-275), of a valid
\* event; db_error: the server fails (lock timeout).
StagingMerge ==
    /\ staging.pc = "merge"
    /\ \E db_error \in BOOLEAN :
          IF db_error
          THEN staging' = [staging EXCEPT !.db_error = TRUE, !.failed = TRUE,
                                          !.pc = "except"]
          ELSE staging' = [staging EXCEPT !.connection.written = TRUE, !.pc = "commit"]
    /\ StagingFrame

\* conn.commit(); return True (277-279)
StagingCommit ==
    /\ staging.pc = "commit"
    /\ LET s == SessionCommit(staging.connection)
       IN  staging' = [staging EXCEPT
                          !.connection = s,
                          !.stored = IF s.trancount = 0
                                     THEN staging.stored \cup {staging.calls + 1}
                                     ELSE staging.stored,
                          !.pc = "cleanup"]
    /\ StagingFrame

\* except: conn.rollback(); raise (281-284)
StagingExcept ==
    /\ staging.pc = "except"
    /\ staging' = [staging EXCEPT !.connection = SessionRollback(staging.connection),
                                  !.pc = "cleanup"]
    /\ StagingFrame

\* finally: the DROP of the staging tables (285-294)
StagingCleanup ==
    /\ staging.pc = "cleanup"
    /\ staging' = [staging EXCEPT !.connection = SessionDropTemp(staging.connection),
                                  !.pc = "release"]
    /\ StagingFrame

\* get_connection's finally (55-60): rollback, and the connection goes to the
\* end of the queue.  The call has returned True or raised.
StagingRelease ==
    /\ staging.pc = "release"
    /\ staging' = [staging EXCEPT
                      !.queue = Append(staging.queue, SessionRollback(staging.connection)),
                      !.connection = FreshSession,
                      !.calls = staging.calls + 1,
                      !.results = Append(staging.results,
                                         [leftover |-> staging.leftover,
                                          db_error |-> staging.db_error,
                                          result |-> IF staging.failed THEN "raised"
                                                     ELSE "True"]),
                      !.pc = "idle"]
    /\ StagingFrame

NextStaging ==
    \/ StagingBorrow \/ StagingBegin \/ StagingCreate \/ StagingMerge
    \/ StagingCommit \/ StagingExcept \/ StagingCleanup \/ StagingRelease

SpecStaging == InitRetry /\ [][NextStaging]_vars

----------------------------------------------------------------------------
(* get_connection: threads borrowing pooled connections (database.py:40-69) *)

PoolFrame == UNCHANGED <<dbvars, remote, runvars, get_events_call, tz_cache, downloads,
                         tz_call, main, window, callvars>>

Holds(w) == pool.borrower[w].pc = "body"

\* connection = self.connection_pool.get(timeout=30); yield connection
Borrow(w) ==
    /\ pool.borrower[w].pc = "idle"
    /\ Len(pool.connection_pool) > 0
    /\ pool' = [connection_pool |-> Tail(pool.connection_pool),
                borrower |-> [pool.borrower EXCEPT
                                 ![w] = [pc |-> "body",
                                         connection |-> Head(pool.connection_pool),
                                         last |-> "none"]]]
    /\ PoolFrame

\* The queue stays empty for the 30 seconds: get raises queue.Empty, connection is
\* still None, the except branch re-raises and the finally branch does nothing.
BorrowTimeout(w) ==
    /\ pool.borrower[w].pc = "idle"
    /\ Len(pool.connection_pool) = 0
    /\ pool.borrower[w].last # "empty"
    /\ pool' = [pool EXCEPT !.borrower[w].last = "empty"]
    /\ PoolFrame

\* The body of the with block executes a statement: in manual-commit mode the
\* first statement opens a transaction.
Execute(w) ==
    /\ Holds(w)
    /\ ~pool.borrower[w].connection.broken
    /\ ~pool.borrower[w].connection.open_txn
    /\ pool' = [pool EXCEPT !.borrower[w].connection.open_txn = TRUE]
    /\ PoolFrame

\* conn.commit() in the body.
CommitBody(w) ==
    /\ Holds(w)
    /\ ~pool.borrower[w].connection.broken
    /\ pool.borrower[w].connection.open_txn
    /\ pool' = [pool EXCEPT !.borrower[w].connection.open_txn = FALSE]
    /\ PoolFrame

\* The link to the server is lost while the connection is borrowed: the server
\* ends the session (and its transaction); every later call on it raises.
Break(w) ==
    /\ Holds(w)
    /\ ~pool.borrower[w].connection.broken
    /\ pool' = [pool EXCEPT !.borrower[w].connection = NoConnection]
    /\ PoolFrame

\* The finally branch (56-69): connection.rollback() and put; when that raises,
\* pyodbc.connect a replacement and put it; when that raises too, only a log line.
PutBack(queue, connection, reconnect_ok) ==
    IF ~connection.broken
    THEN Append(queue, [connection EXCEPT !.open_txn = FALSE])
    ELSE IF reconnect_ok THEN Append(queue, NewConnection) ELSE queue

PutBackOutcome(connection, reconnect_ok) ==
    IF ~connection.broken THEN "returned"
    ELSE IF reconnect_ok THEN "replaced" ELSE "lost"

\* The with block is left, normally or by an exception of the body (the except
\* branch 47-54 only adds a rollback whose failure is swallowed).
Release(w) ==
    /\ Holds(w)
    /\ \E reconnect_ok \in BOOLEAN :
          pool' = [connection_pool |->
                      PutBack(pool.connection_pool, pool.borrower[w].connection,
                              reconnect_ok),
                   borrower |-> [pool.borrower EXCEPT
                                    ![w] = [pc |-> "idle",
                                            connection |-> NoConnection,
                                            last |-> PutBackOutcome(
                                                        pool.borrower[w].connection,
                                                        reconnect_ok)]]]
    /\ PoolFrame

InitPool ==
    /\ DbInit
    /\ RunInit
    /\ AuxInit
    /\ remote = [m \in Mailboxes |-> <<>>]

NextPool ==
    \E w \in Workers :
        \/ Borrow(w)
        \/ BorrowTimeout(w)
        \/ Execute(w)
        \/ CommitBody(w)
        \/ Break(w)
        \/ Release(w)

SpecPool == InitPool /\ [][NextPool]_vars

----------------------------------------------------------------------------
(* What a reader of the store sees (get_event_categories, database.py:434-447) *)

LinksOf(id) == {ec \in calendar_event_calendar_category : ec.event_id = id}

LinkedNames(id) ==
    {cc.name : cc \in {x \in calendar_category :
                          \E ec \in LinksOf(id) : ec.category_id = x.category_id}}

RowsOf(id) == {r \in calendar_event : r.event_id = id}

Raised(result) == result \in {"db_error", "constraint"}

\* The event rows without their updated_at column.
RowsSansUpdatedAt == {[r EXCEPT !.updated_at = NullDate] : r \in calendar_event}

\* The names of a category list, case-insensitively distinct, first-seen casing.
FirstSeen(cats) ==
    {cats[i] : i \in {k \in 1..Len(cats) :
                        \A j \in 1..(k - 1) : Lower(cats[j]) # Lower(cats[k])}}

----------------------------------------------------------------------------
(* Properties of the upsert (SpecDb) *)

\* C1 (as amended): upserting the same event twice in succession leaves the
\* store as the first upsert left it, but for the updated_at marker of the event
\* row, which the second upsert touches: every other column of every event row,
\* the category table and the link table are unchanged, and there is exactly
\* one row for the event_id.
C1_IdempotentUpsert ==
    [][(now' # now /\ last_upsert'.repeated) =>
          /\ RowsSansUpdatedAt' = RowsSansUpdatedAt
          /\ calendar_category' = calendar_category
          /\ next_category_id' = next_category_id
          /\ calendar_event_calendar_category' = calendar_event_calendar_category
          /\ \A e \in Range(last_upsert'.events) :
                Cardinality({r \in calendar_event' : r.event_id = e.event_id}) = 1]_vars

\* C1 as stated: the second upsert leaves the whole store, the event row
\* included, equal to the store after the first.
C1_StoreUnchanged ==
    [][(now' # now /\ last_upsert'.repeated) =>
          /\ calendar_event' = calendar_event
          /\ calendar_category' = calendar_category
          /\ calendar_event_calendar_category' = calendar_event_calendar_category]_vars

\* C1 witness: the same event, with two categories, has been upserted twice in
\* succession and both upserts committed.
C1_Witness ==
    /\ last_upsert.repeated
    /\ last_upsert.result = "ok"
    /\ Len(last_upsert.events) = 1
    /\ Len(last_upsert.events[1].categories) = 2
    /\ Cardinality(LinksOf(last_upsert.events[1].event_id)) = 2

\* C2: after every successful upsert of an event, the names linked to its
\* event_id are exactly the names the upsert carried (as the server compares
\* names: a name is linked through the category row whose name equals it), one
\* link per name, whatever was linked before; with an empty list no link is left.
C2_LinkSetEqualsCarried ==
    last_upsert.result = "ok" =>
        \A e \in Range(last_upsert.events) :
            /\ {Key(n, collation) : n \in LinkedNames(e.event_id)}
                  = {Key(n, collation) : n \in Range(e.categories)}
            /\ Cardinality(LinksOf(e.event_id))
                  = Cardinality({Key(n, collation) : n \in Range(e.categories)})

\* C2 witness: an event first upserted with Work (the upsert that created the
\* Work category) has been upserted again with Meeting only, and committed.
C2_Witness ==
    /\ last_upsert.result = "ok"
    /\ Len(last_upsert.events) = 1
    /\ last_upsert.events[1].categories = <<"Meeting">>
    /\ \E r \in RowsOf(last_upsert.events[1].event_id), cc \in calendar_category :
          /\ cc.name = "Work"
          /\ cc.created_at = r.created_at
          /\ r.updated_at > r.created_at
    /\ LinkedNames(last_upsert.events[1].event_id) = {"Meeting"}

\* C3 as stated: an event whose category list holds duplicates or names that
\* differ by case only is stored, with one link per case-insensitively distinct
\* name and the first-seen casing as the stored name.
C3_CategoryNormalization ==
    (Len(last_upsert.events) = 1 /\ last_upsert.result # "db_error") =>
        /\ last_upsert.result = "ok"
        /\ LinkedNames(last_upsert.events[1].event_id)
              = FirstSeen(last_upsert.events[1].categories)

\* C4 as stated: after an upsert that committed, no category row is left with
\* zero links.
C4_NoOrphanCategory ==
    last_upsert.result = "ok" =>
        \A cc \in calendar_category :
            \E ec \in calendar_event_calendar_category : ec.category_id = cc.category_id

----------------------------------------------------------------------------
(* Properties of a sync run (Spec) *)

Last(q) == q[Len(q)]

Min(a, b) == IF a < b THEN a ELSE b

\* The page requests made for mailbox u, as positions of page_log.
RequestsOf(u) == {i \in 1..Len(page_log) : page_log[i].user = u}

\* The number of non-empty pages of calendar cal.
PagesOf(cal) == (Len(cal) + BatchSize - 1) \div BatchSize

\* C5 as stated: an event that ends before it starts never reaches upsert_event,
\* and no stored row has end_date < start_date.
C5_NoInvertedDates ==
    /\ \A r \in calendar_event : r.end_date >= r.start_date
    /\ \A i \in 1..Len(upsert_log) :
          LET raw == upsert_log[i].raw
          IN  (raw.start.kind = "iso" /\ raw.end.kind = "iso"
                 /\ ParseDate(raw.end) < ParseDate(raw.start))
                => ~upsert_log[i].called /\ ~upsert_log[i].ok

\* C6 as stated: process_event returns False and writes nothing for every raw
\* event without an id or without a subject.
C6_RequiredFields ==
    \A i \in 1..Len(upsert_log) :
        (upsert_log[i].raw.id = "" \/ upsert_log[i].raw.subject = "")
            => ~upsert_log[i].called /\ ~upsert_log[i].ok

\* C7: a fetch whose page requests all succeed ends after one request per
\* non-empty page plus one (each offset requested once), and returns the
\* mailbox's events in page order, each once; while it runs, all_events is the
\* prefix of the calendar below the next offset.
C7_PaginationComplete ==
    /\ \A u \in Mailboxes :
          /\ Cardinality(RequestsOf(u)) <= PagesOf(remote[u]) + 1
          /\ \A i, j \in RequestsOf(u) : i < j => page_log[i].skip < page_log[j].skip
    /\ pc = "fetch_page" =>
          /\ skip <= PagesOf(remote[users[user_idx]]) * BatchSize
          /\ all_events = SubSeq(remote[users[user_idx]], 1,
                                 Min(skip, Len(remote[users[user_idx]])))
    /\ events.ok =>
          /\ events.events = remote[Last(fetch_log).user]
          /\ Cardinality(RequestsOf(Last(fetch_log).user))
                = PagesOf(remote[Last(fetch_log).user]) + 1

\* C7 witness: a fetch over two non-empty pages and the empty third has
\* returned the three events of the mailbox.
C7_Witness ==
    /\ events.ok
    /\ Len(events.events) = 3
    /\ Cardinality(RequestsOf(Last(fetch_log).user)) = 3

\* C8 as stated: a page request that is rate-limited is retried, so a fetch
\* fails on a rate-limit signal only once the same page has been requested
\* MaxRetries times.
C8_RateLimitRetried ==
    \A k \in 1..Len(fetch_log) :
        LET u == fetch_log[k].user
            n == CHOOSE i \in RequestsOf(u) : \A j \in RequestsOf(u) : j <= i
        IN  (fetch_log[k].outcome = "failed" /\ page_log[n].outcome = "rate_limited")
              => Cardinality({i \in RequestsOf(u) : page_log[i].skip = page_log[n].skip})
                    = MaxRetries

\* C9: once a page request of a mailbox has failed, the fetch has returned
\* failure with no event, and no event of that mailbox is handed to
\* process_event in this run.
C9_NoPartialFetch ==
    \A i \in 1..Len(page_log) :
        page_log[i].outcome # "ok" =>
            /\ \E k \in 1..Len(fetch_log) :
                  /\ fetch_log[k].user = page_log[i].user
                  /\ fetch_log[k].outcome = "failed"
            /\ \A k \in 1..Len(upsert_log) : upsert_log[k].user # page_log[i].user
            /\ (Last(fetch_log).user = page_log[i].user
                  => ~events.ok /\ events.events = <<>>)

\* C9 witness: a mailbox's first page came back, its second page request
\* failed, and the run has ended.
C9_Witness ==
    /\ pc = "done"
    /\ \E i, j \in 1..Len(page_log) :
          /\ page_log[i].user = page_log[j].user
          /\ page_log[i].skip = 0 /\ page_log[i].outcome = "ok"
          /\ page_log[j].skip = BatchSize /\ page_log[j].outcome # "ok"

\* C10: a failed fetch (None or an exception) ends neither the run nor undoes
\* anything: every committed event of an earlier mailbox keeps its row, and
\* when the run ends every listed mailbox has been fetched, in listing order.
C10_MailboxIsolation ==
    /\ \A i \in 1..Len(upsert_log) :
          upsert_log[i].ok =>
              \E r \in calendar_event : /\ r.event_id = upsert_log[i].raw.id
                                        /\ r.user_email = upsert_log[i].user
                                        /\ r.subject = upsert_log[i].raw.subject
    /\ Len(fetch_log) <= Len(users)
    /\ \A k \in 1..Len(fetch_log) : fetch_log[k].user = users[k]
    /\ (pc = "done" /\ users # <<>>) => Len(fetch_log) = Len(users)

\* C10 witness: A's events were committed, B's fetch failed, C was fetched and
\* its event committed, and A's row is still there at the end of the run.
C10_Witness ==
    /\ pc = "done"
    /\ users = <<"A", "B", "C">>
    /\ [k \in 1..Len(fetch_log) |-> fetch_log[k].outcome] \in
          {<<"ok", "failed", "ok">>, <<"ok", "raised", "ok">>}
    /\ \E i, j \in 1..Len(upsert_log) :
          /\ upsert_log[i].user = "A" /\ upsert_log[i].ok
          /\ upsert_log[j].user = "C" /\ upsert_log[j].ok
    /\ \E r \in calendar_event : r.user_email = "A"

\* The listing requests of the run that failed: no response, or an exception.
ListFailures == {i \in 1..Len(run_log) :
                    run_log[i].step = "list" /\ run_log[i].outcome # "ok"}

\* C11 as stated: once a request of the mailbox listing has failed, on whatever
\* page, the run fetches no mailbox, upserts no event and reports failure.
C11_ListFailureFatal ==
    ListFailures # {} =>
        /\ page_log = <<>> /\ fetch_log = <<>> /\ upsert_log = <<>>
        /\ pc = "done" /\ run_result = "raised"

AuthFailed == \E i \in 1..Len(run_log) :
                 run_log[i].step = "auth" /\ run_log[i].outcome = "failed"

\* C12 as stated: sync_calendar returns False when authentication fails and
\* when the listing is empty, and a true value after a run that went through
\* its mailboxes.
C12_ReturnValue ==
    (pc = "done" /\ run_result = "returned") =>
        IF AuthFailed \/ users = <<>>
        THEN ReturnValue(run_result) = "False"
        ELSE Truthy(ReturnValue(run_result))

\* C13: in a run, authenticate comes first and every listing request after a
\* successful authenticate; page requests and fetches happen only once the
\* listing is over; an event is handed to the upsert only after the fetch of
\* its mailbox has returned its events; and after a failed authenticate there
\* is no listing request, no page request, no fetch and no upsert.
C13_PhaseOrdering ==
    /\ pc \in {"list", "fetch_start", "fetch_page", "process"} =>
          run_log # <<>> /\ run_log[1] = [step |-> "auth", outcome |-> "ok"]
    /\ \A i \in 1..Len(run_log) :
          IF i = 1 THEN run_log[i].step = "auth"
                   ELSE run_log[i].step = "list" /\ run_log[1].outcome = "ok"
    /\ (page_log # <<>> \/ fetch_log # <<>> \/ upsert_log # <<>>) =>
          /\ pc \in {"fetch_start", "fetch_page", "process", "done"}
          /\ \E i \in 1..Len(run_log) : run_log[i].step = "list"
    /\ \A k \in 1..Len(upsert_log) :
          /\ \E j \in 1..Len(fetch_log) :
                fetch_log[j] = [user |-> upsert_log[k].user, outcome |-> "ok"]
          /\ \E j \in 1..Len(page_log) : page_log[j].user = upsert_log[k].user
    /\ pc = "process" => Last(fetch_log) = [user |-> users[user_idx], outcome |-> "ok"]
    /\ AuthFailed =>
          /\ Len(run_log) = 1 /\ pc = "done"
          /\ page_log = <<>> /\ fetch_log = <<>> /\ upsert_log = <<>>
          /\ calendar_event = {}

\* C13 witness: a run went through authenticate, both listing pages, the fetch
\* of each mailbox and at least one upsert, and ended.
C13_Witness ==
    /\ pc = "done"
    /\ Len(run_log) = 3
    /\ Len(fetch_log) = 3
    /\ \E k \in 1..Len(upsert_log) : upsert_log[k].called

\* The calls of process_event made for mailbox u, in order.
CallsOf(u) == SelectSeq(upsert_log, LAMBDA r : r.user = u)

\* Mailbox u's turn in the loop of sync_calendar is over.
Finished(u) == \E j \in 1..Len(users) :
                  users[j] = u /\ (j < user_idx \/ pc = "done")

\* Mailbox u's fetch returned its events.
Fetched(u) == \E j \in 1..Len(fetch_log) : fetch_log[j] = [user |-> u, outcome |-> "ok"]

\* C14: an event that process_event rejects is skipped alone: once a mailbox
\* whose fetch succeeded has had its turn, every fetched event was given to
\* process_event, once and in order, and each one that is not rejected, before
\* or after a rejected one, was passed to upsert_event.
C14_RejectedSkippedAlone ==
    \A u \in Mailboxes :
        /\ (Fetched(u) /\ Finished(u)) =>
              [k \in 1..Len(CallsOf(u)) |-> CallsOf(u)[k].raw] = remote[u]
        /\ \A k \in 1..Len(CallsOf(u)) :
              /\ CallsOf(u)[k].raw = remote[u][k]
              /\ CallsOf(u)[k].called = ReachesUpsert(remote[u][k])

\* C14 witness: a mailbox held a rejected event between two others, and both
\* others were passed to upsert_event, one before and one after the rejection.
C14_Witness ==
    \E u \in Mailboxes :
        /\ Finished(u)
        /\ Len(CallsOf(u)) = 3
        /\ CallsOf(u)[1].called /\ ~CallsOf(u)[2].called /\ CallsOf(u)[3].called

\* C15 as stated: once upsert_event has raised for an event of a mailbox, no
\* later event of that mailbox is passed to upsert_event in the run.
C15_UpsertFailureSkipsMailbox ==
    \A u \in Mailboxes :
        \A k, l \in 1..Len(CallsOf(u)) :
            (k < l /\ CallsOf(u)[k].called /\ ~CallsOf(u)[k].ok)
                => ~CallsOf(u)[l].called

----------------------------------------------------------------------------
(* Properties of the transaction (SpecTxn) *)

Errors == {"db_error", "constraint", "pk_violation", "unique_violation"}

\* C16: whatever statement of upsert_events_batch fails (staging, either MERGE,
\* the link DELETE, the link INSERT, the commit), the transaction ends with the
\* error raised and, no other transaction having been open meanwhile, with the
\* event, category and link tables exactly as they were when it began.
C16_AtomicUpsert ==
    [][\A w \in Workers :
          /\ (~InFlight(w) /\ txn'[w].t # txn[w].t /\ txn'[w].pc = "failed")
                => Tables' = Tables /\ txn'[w].result \in Errors
          /\ (InFlight(w) /\ txn[w].alone /\ txn'[w].pc = "failed")
                => Tables' = txn[w].before /\ txn'[w].result \in Errors]_vars

\* C16 witness: an upsert that had updated the event row, inserted a category,
\* deleted a link and inserted one failed at its commit, and the row, the
\* categories and the links are those of the upsert committed before it.
C16_Witness ==
    \E w \in Workers :
        /\ txn[w].pc = "failed" /\ txn[w].failed_at = "commit"
        /\ txn[w].evs[1].subject = "Review"
        /\ \E r \in calendar_event :
              r.event_id = "E1" /\ r.subject = "Standup" /\ r.updated_at = r.created_at
        /\ {cc.name : cc \in calendar_category} = {"Work"}
        /\ LinkedNames("E1") = {"Work"}

----------------------------------------------------------------------------
(* Properties of successive runs (SpecRuns) *)

\* The event ids the remote holds for mailbox u (every event of the model lies
\* inside the window), and the ids of u's live rows.
RemoteIds(u) == {remote[u][i].id : i \in 1..Len(remote[u])} \ {""}

LiveIds(u) == {r.event_id : r \in {x \in calendar_event :
                                      x.user_email = u /\ ~x.is_deleted}}

\* C17 as stated: at the end of a run in which nothing failed for a mailbox,
\* the mailbox's live rows are exactly the events the remote holds: each remote
\* event has its row, and an event no longer held remotely has no live row.
C17_ConvergesToRemote ==
    (pc = "done" /\ run_result = "returned") =>
        \A u \in Mailboxes :
            (Fetched(u) /\ \A k \in 1..Len(CallsOf(u)) : CallsOf(u)[k].ok)
                => LiveIds(u) = RemoteIds(u)

----------------------------------------------------------------------------
(* One row per event (SpecDb) *)

\* C18: the event table never holds two rows with one event_id; an upsert of
\* an event that has a row keeps that row (same created_at), adds none, and
\* leaves the event linked to the categories it carried.
C18_OneRowPerEventId ==
    [][/\ \A r1, r2 \in calendar_event' : r1.event_id = r2.event_id => r1 = r2
       /\ (now' # now /\ last_upsert'.result = "ok") =>
             /\ {r.event_id : r \in calendar_event'}
                   = {r.event_id : r \in calendar_event}
                        \cup {e.event_id : e \in Range(last_upsert'.events)}
             /\ \A r \in calendar_event :
                   \E r2 \in calendar_event' :
                       r2.event_id = r.event_id /\ r2.created_at = r.created_at
             /\ \A e \in Range(last_upsert'.events) :
                   {Key(cc.name, collation) :
                       cc \in {x \in calendar_category' :
                                  \E ec \in calendar_event_calendar_category' :
                                     /\ ec.event_id = e.event_id
                                     /\ ec.category_id = x.category_id}}
                     = {Key(n, collation) : n \in Range(e.categories)}]_vars

\* C18 witness: an event stored with [Work] has been upserted again with
\* [Work, Meeting]: one row, created by the first upsert and updated by the
\* second, the Work link of the first upsert and a Meeting link of the second.
C18_Witness ==
    /\ last_upsert.result = "ok"
    /\ Len(last_upsert.events) = 1
    /\ last_upsert.events[1].categories = <<"Work", "Meeting">>
    /\ Cardinality(RowsOf(last_upsert.events[1].event_id)) = 1
    /\ LinkedNames(last_upsert.events[1].event_id) = {"Work", "Meeting"}
    /\ \E r \in RowsOf(last_upsert.events[1].event_id) :
          /\ r.created_at < r.updated_at
          /\ \E l1, l2 \in LinksOf(r.event_id) :
                l1.created_at = r.created_at /\ l2.created_at = r.updated_at

----------------------------------------------------------------------------
(* Properties of overlapping upserts (SpecTxn) *)

\* The row of event e as the upsert begun at time t leaves it, but for
\* created_at.
WrittenBy(r, e, t) == [r EXCEPT !.created_at = t] = EventRow(e, t, t)

\* C19 as stated: of two upserts of one event_id on two connections, neither is
\* ended by an error the server raises on its own (a key violation), under any
\* interleaving; and once both have committed there is one row for the id,
\* written by one of them, linked to the categories of that same one.
C19_OverlappingUpserts ==
    \A w \in Workers :
        (/\ txn[w].evs # <<>> /\ txn[Other(w)].evs # <<>>
         /\ txn[w].evs[1].event_id = txn[Other(w)].evs[1].event_id)
        => /\ txn[w].result \notin {"pk_violation", "unique_violation"}
           /\ (txn[w].pc = "committed" /\ txn[Other(w)].pc = "committed") =>
                 /\ Cardinality(RowsOf(txn[w].evs[1].event_id)) = 1
                 /\ \E x \in Workers :
                       /\ \A r \in RowsOf(txn[x].evs[1].event_id) :
                             WrittenBy(r, txn[x].evs[1], txn[x].t)
                       /\ LinkedNames(txn[x].evs[1].event_id)
                             = Range(txn[x].evs[1].categories)

\* C20 as stated: of two upserts that both need a category name that has no row
\* yet, neither is ended by a violation of the UNIQUE constraint on name, under
\* any interleaving, and the name never has two rows.
C20_RaceSafeCategoryCreation ==
    /\ \A w \in Workers : txn[w].result # "unique_violation"
    /\ \A c1, c2 \in calendar_category :
          SameName(c1.name, c2.name, collation) => c1 = c2

----------------------------------------------------------------------------
(* Properties of a killed run and the run after it (SpecCrash) *)

\* Row r carries what event_data d carries, timestamps apart.
SameContent(r, d) ==
    /\ r.event_id = d.event_id /\ r.user_email = d.user_email
    /\ r.user_name = d.user_name /\ r.subject = d.subject
    /\ r.description = d.description /\ r.start_date = d.start_date
    /\ r.end_date = d.end_date /\ r.is_deleted = d.is_deleted

\* The events of mailbox u that an upsert can store.
Storable(u) ==
    {e \in Range(remote[u]) :
        ReachesUpsert(e) /\ StagingOk(<<EventDataOf(e, u, 1)>>, collation)}

LinkedKeys(id) == {Key(n, collation) : n \in LinkedNames(id)}

\* C21: with the remote unchanged, wherever runs were killed: every stored row
\* is the row of a remote event, with that event's content and linked to that
\* event's categories (no row without its links), every link belongs to a
\* stored row and a stored category (no link without its row); and when a run
\* has completed, every remote event has its one row: the store is the one an
\* uninterrupted run leaves.
C21_CrashRepair ==
    /\ \A r \in calendar_event :
          /\ \E e \in Storable(r.user_email) :
                /\ SameContent(r, EventDataOf(e, r.user_email, 1))
                /\ LinkedKeys(r.event_id) = {Key(n, collation) : n \in Range(e.categories)}
          /\ Cardinality(RowsOf(r.event_id)) = 1
    /\ \A ec \in calendar_event_calendar_category :
          /\ RowsOf(ec.event_id) # {}
          /\ \E cc \in calendar_category : cc.category_id = ec.category_id
    /\ (pc = "done" /\ run_result = "returned") =>
          \A u \in Mailboxes : \A e \in Storable(u) : RowsOf(e.id) # {}

\* C21 witness: a run has completed after an earlier run was killed inside
\* mailbox A: A's first event was stored by the earlier run and only updated by
\* this one, A's last event was stored by this one.
C21_Witness ==
    /\ pc = "done" /\ run_result = "returned" /\ run_no = 2
    /\ \E r1, r2 \in calendar_event :
          /\ r1.event_id = remote["A"][1].id /\ r1.created_at < r1.updated_at
          /\ r2.event_id = remote["A"][3].id /\ r2.created_at = r2.updated_at
          /\ LinkedNames(r2.event_id) # {}

\* C22: whenever no thread holds a connection the pool holds pool_size
\* connections, and no connection in the pool has a transaction open.
C22_PoolHygiene ==
    /\ (\A w \in Workers : ~Holds(w)) => Len(pool.connection_pool) = PoolSize
    /\ \A i \in 1..Len(pool.connection_pool) : ~pool.connection_pool[i].open_txn

\* The half of C22 that the code keeps: nothing in the pool has a transaction open.
C22_NoOpenTxnInPool ==
    \A i \in 1..Len(pool.connection_pool) : ~pool.connection_pool[i].open_txn

----------------------------------------------------------------------------
(* Properties of the upsert, continued (SpecDb) *)

\* C23: a committed upsert of events each of whose category set equals the set
\* it is linked to (names compared as the server compares them) writes no row
\* to, and deletes no row from, the link table and the category table.
C23_NoOpFastPath ==
    [][(/\ now' # now
        /\ last_upsert'.result = "ok"
        /\ \A e \in Range(last_upsert'.events) :
              {Key(n, collation) : n \in Range(e.categories)} = LinkedKeys(e.event_id))
         => /\ calendar_event_calendar_category' = calendar_event_calendar_category
            /\ calendar_category' = calendar_category]_vars

\* C23 witness: the second of two upserts carried [Work, Meeting] for an event
\* whose two links date from the first: the row was touched, the links were not.
C23_Witness ==
    /\ now = 2
    /\ last_upsert.result = "ok"
    /\ Len(last_upsert.events) = 1
    /\ last_upsert.events[1].categories = <<"Work", "Meeting">>
    /\ \E r \in RowsOf(last_upsert.events[1].event_id) :
          /\ r.created_at = 1 /\ r.updated_at = 2
          /\ LinkedNames(r.event_id) = {"Work", "Meeting"}
          /\ \A ec \in LinksOf(r.event_id) : ec.created_at = 1
    /\ \A cc \in calendar_category : cc.created_at = 1

\* C24: a committed upsert leaves, for every event it carried, exactly one row
\* and that row holds every column of the event as passed, whatever the row
\* held before (an older last_modified included), with updated_at the time of
\* the upsert; an event_id that had no row gets one new row, and no other row
\* is added.
C24_UnconditionalOverwrite ==
    [][(now' # now /\ last_upsert'.result = "ok") =>
          /\ \A e \in Range(last_upsert'.events) :
                {r \in calendar_event' : r.event_id = e.event_id}
                  = {EventRow(e, c, now') :
                        c \in IF RowsOf(e.event_id) = {} THEN {now'}
                              ELSE {r.created_at : r \in RowsOf(e.event_id)}}
          /\ Cardinality(calendar_event')
               = Cardinality(calendar_event)
                   + Cardinality({e.event_id : e \in Range(last_upsert'.events)}
                                    \ {r.event_id : r \in calendar_event})]_vars

\* C24 witness: a row that was created by one upsert and overwritten by the
\* next with the version whose last_modified is the older one, and a second
\* event that the same store holds as created only.
C24_Witness ==
    /\ last_upsert.result = "ok"
    /\ ~last_upsert.repeated
    /\ \E r \in calendar_event :
          /\ r.event_id = last_upsert.events[1].event_id
          /\ r.created_at < r.updated_at
          /\ r.updated_at = now
          /\ r.last_modified = 1
          /\ r.subject = "Review"
          /\ r.is_deleted
    /\ \E r \in calendar_event : r.created_at = r.updated_at

----------------------------------------------------------------------------
(* Soft delete (SpecLocal) *)

----------------------------------------------------------------------------
(* Order and count of the upserts of a run (Spec) *)

\* C26: the events of a mailbox are upserted one at a time, in the order the
\* remote returned them: every upsert carries one event, no two rows are
\* written at the same time, and of two stored events of one mailbox the one
\* the remote returned first (earlier page, or earlier in the page) was
\* written first.
C26_UpsertOrder ==
    /\ Len(last_upsert.events) <= 1
    /\ \A r1, r2 \in calendar_event : r1 # r2 => r1.updated_at # r2.updated_at
    /\ \A u \in Mailboxes :
          \A i, j \in 1..Len(remote[u]) :
              i < j => \A r1 \in RowsOf(remote[u][i].id), r2 \in RowsOf(remote[u][j].id) :
                          r1.updated_at < r2.updated_at

\* C26 witness: a mailbox with three events (more than one page of two) has had
\* its turn, and the first and the last event it returned are both stored.
C26_Witness ==
    \E u \in Mailboxes :
        /\ Finished(u)
        /\ Len(remote[u]) = 3
        /\ RowsOf(remote[u][1].id) # {}
        /\ RowsOf(remote[u][Len(remote[u])].id) # {}

\* The upserts of the run that committed, all mailboxes together.
Committed == {k \in 1..Len(upsert_log) : upsert_log[k].ok}

\* C27 as stated: when a run has ended, the count of successfully applied events
\* it reported (process_events' success_count, the only count a run logs) is
\* the number of events, over all mailboxes, whose upsert committed.
C27_AggregateCount ==
    (pc = "done" /\ run_result = "returned") => success_count = Cardinality(Committed)

\* What the code keeps: while a mailbox's events are processed, success_count
\* is the number of that mailbox's events whose upsert committed.
C27_PerMailboxCount ==
    (pc = "process") =>
        success_count
          = Cardinality({k \in Committed : upsert_log[k].user = users[user_idx]})

----------------------------------------------------------------------------
(* get_events (SpecQuery) *)

\* The call's end date is before its start date.
Inverted(c) ==
    c.start_date # NullDate /\ c.end_date # NullDate /\ c.end_date < c.start_date

\* The call has neither a complete date range nor a category.
Unfiltered(c) ==
    (c.start_date = NullDate \/ c.end_date = NullDate) /\ c.category = ""

\* C28 as stated: a call of get_events whose end date is before its start date,
\* or that has neither a complete date range nor a category, raises ValueError
\* and issues no database query.
C28_GetEventsValidation ==
    (get_events_call.outcome # "none"
        /\ (Inverted(get_events_call) \/ Unfiltered(get_events_call)))
      => get_events_call.outcome = "ValueError" /\ get_events_call.queries = 0

\* What the code keeps: the same, for calls without a category.
C28_ValidationWithoutCategory ==
    (get_events_call.outcome # "none" /\ get_events_call.category = ""
        /\ (Inverted(get_events_call) \/ Unfiltered(get_events_call)))
      => get_events_call.outcome = "ValueError" /\ get_events_call.queries = 0

----------------------------------------------------------------------------
(* Timezone resolution (SpecTz) *)

C30_FetchedOnce == Len(downloads) <= 1

\* What the code keeps: the table is downloaded at most once for each label.
C30_FetchedOncePerLabel ==
    \A i, j \in 1..Len(downloads) : downloads[i] = downloads[j] => i = j

----------------------------------------------------------------------------
(* main (SpecOneShotFair, SpecLoopFair) *)

\* C31: with a center date main calls sync_job once, sync_job calls
\* sync_calendar at most once (not at all when CalendarSync() raises), main
\* returns only after that sync has ended, however it ended, and it does return.
C31_OneShot ==
    /\ [](/\ main.jobs <= 1
          /\ run_no = 1
          /\ main.pc \notin {"loop", "cooldown"}
          /\ main.pc = "exited" => (main.jobs = 1 /\ pc \in {"idle", "done"}))
    /\ <>(main.pc = "exited")

\* C31 witness: main has returned after a sync in which a database error made
\* an upsert fail.
C31_Witness ==
    /\ main.mode = "one_shot"
    /\ main.pc = "exited"
    /\ pc = "done"
    /\ \E k \in 1..Len(upsert_log) : upsert_log[k].called /\ ~upsert_log[k].ok

\* C32: without a date main runs one sync before it enters the loop; a sync
\* that has ended, however it ended, and the cooldown after an error in the
\* loop lead back to the loop; main ends on an interrupt only; and unless it
\* is interrupted the loop is reached again and again.
C32_Continuous ==
    /\ [][/\ (main'.pc \in {"loop", "cooldown"}) => main'.jobs >= 1
          /\ (main'.pc = "exited" /\ main.pc # "exited") => main'.interrupted
          /\ (main.pc \in {"sync_job", "cooldown"} /\ main'.pc # main.pc)
                => main'.pc \in {"loop", "exited"}]_vars
    /\ (<>[](main.pc = "exited") \/ []<>(main.pc = "loop"))

\* C32 witness: the loop has called sync_job a second time after an error in
\* the loop, and the sync before it had failed in the listing.
C32_Witness ==
    /\ main.mode = "continuous"
    /\ main.jobs = 2
    /\ main.errors = 1
    /\ main.pc = "loop"
    /\ run_result = "raised"

----------------------------------------------------------------------------
(* sync_calendar's window (SpecWindow) *)

\* C33 as stated: a call of sync_calendar with end_date before start_date that
\* has ended has raised ValueError, and it has listed no mailbox, fetched no
\* event and written nothing.
C33_InvalidWindow ==
    (~ValidWindow(window) /\ pc = "done") =>
        /\ run_result = "raised"
        /\ \E i \in 1..Len(run_log) : run_log[i].outcome = "ValueError"
        /\ \A i \in 1..Len(run_log) : run_log[i].step # "list"
        /\ page_log = <<>> /\ fetch_log = <<>> /\ upsert_log = <<>>
        /\ now = 0 /\ calendar_event = {}

\* What the code keeps: with an invalid window nothing is listed, fetched or
\* written, and the call raises ValueError when authenticate succeeded.
C33_NothingDone ==
    ~ValidWindow(window) =>
        /\ \A i \in 1..Len(run_log) : run_log[i].step # "list"
        /\ page_log = <<>> /\ fetch_log = <<>> /\ upsert_log = <<>>
        /\ now = 0 /\ calendar_event = {}
        /\ (pc = "done" /\ run_log[1].outcome = "ok") =>
              run_result = "raised" /\ Last(run_log).outcome = "ValueError"

----------------------------------------------------------------------------
(* authenticate (SpecAuth) *)

\* C34: authenticate does not raise and returns True or False: on an account
\* that is authenticated it returns True and does not call the account's
\* authenticate; otherwise it calls it once and returns what it returned,
\* False when it raised.
C34_AuthenticateBoolean ==
    (auth.outcome # "none") =>
        /\ ~auth.raised
        /\ auth.result \in {"True", "False"}
        /\ auth.was_authenticated => (auth.result = "True" /\ auth.account_calls = 0)
        /\ ~auth.was_authenticated =>
              /\ auth.account_calls = 1
              /\ auth.result = (IF auth.outcome = "True" THEN "True" ELSE "False")

\* C34 witness: authenticate was called on an authenticated account while the
\* account's own authenticate would have raised.
C34_Witness ==
    /\ auth.was_authenticated
    /\ auth.outcome = "raise"
    /\ auth.result = "True"

----------------------------------------------------------------------------
(* _make_request_with_retry (SpecRetry) *)

RateLimited == {i \in 1..Len(request.responses) : request.responses[i] = "rate_limited"}

----------------------------------------------------------------------------
(* Page offsets of get_calendar_events_batch (Spec) *)

\* The requests for mailbox u that came back with a non-empty page.
NonEmptyPages(u) ==
    {i \in RequestsOf(u) : /\ page_log[i].outcome = "ok"
                           /\ PageAt(remote[u], page_log[i].skip) # <<>>}

\* C36: the k-th page request for a mailbox carries offset (k-1) * batch_size;
\* every request but the mailbox's last came back with a non-empty page; a
\* non-empty page, full or short, is followed by the request of the next
\* offset; and a fetch that returned its list made one request more than it
\* received non-empty pages.
C36_PageOffsets ==
    \A u \in Mailboxes :
        LET R == RequestsOf(u)
            fetched == \E k \in 1..Len(fetch_log) : fetch_log[k].user = u
        IN  /\ \A i \in R :
                  /\ page_log[i].skip = Cardinality({j \in R : j < i}) * BatchSize
                  /\ \A j \in R : j < i => j \in NonEmptyPages(u)
            /\ (R # {} /\ ~fetched) =>
                  /\ R = NonEmptyPages(u)
                  /\ pc = "fetch_page" /\ users[user_idx] = u
                  /\ skip = Cardinality(R) * BatchSize
            /\ (R # {} /\ fetched) =>
                  \E i \in R : /\ \A j \in R : j <= i
                               /\ i \notin NonEmptyPages(u)
            /\ \A k \in 1..Len(fetch_log) :
                  (fetch_log[k].user = u /\ fetch_log[k].outcome = "ok")
                     => Cardinality(R) = Cardinality(NonEmptyPages(u)) + 1

\* C36 witness: a fetch that returned its list after a page shorter than
\* batch_size, having requested the offset after that page.
C36_Witness ==
    \E u \in Mailboxes :
        /\ \E k \in 1..Len(fetch_log) : fetch_log[k].user = u /\ fetch_log[k].outcome = "ok"
        /\ \E i \in NonEmptyPages(u), j \in RequestsOf(u) :
              /\ Len(PageAt(remote[u], page_log[i].skip)) < BatchSize
              /\ page_log[j].skip = page_log[i].skip + BatchSize

----------------------------------------------------------------------------
(* Frame of an upsert (SpecDb) *)

\* The event ids of the batch handed to the last call of upsert_events_batch.
UpsertedIds(call) == {call.events[i].event_id : i \in 1..Len(call.events)}

\* C37: a call of upsert_events_batch leaves the row and the links of every
\* event that is not in its batch as they were, and leaves every category row
\* that existed as it was: category rows are only added.
C37_UpsertFrame ==
    [][LET ids == UpsertedIds(last_upsert')
       IN  /\ {r \in calendar_event' : r.event_id \notin ids}
                = {r \in calendar_event : r.event_id \notin ids}
           /\ {ec \in calendar_event_calendar_category' : ec.event_id \notin ids}
                = {ec \in calendar_event_calendar_category : ec.event_id \notin ids}
           /\ calendar_category \subseteq calendar_category']_vars

\* C37 witness: an upsert was committed that added a category while the store
\* held another event, written earlier, with a link of its own.
C37_Witness ==
    /\ last_upsert.result = "ok"
    /\ \E cc \in calendar_category : cc.created_at = now
    /\ \E r \in calendar_event, ec \in calendar_event_calendar_category :
          /\ r.event_id \notin UpsertedIds(last_upsert)
          /\ r.updated_at < now
          /\ ec.event_id = r.event_id
          /\ ec.created_at < now

----------------------------------------------------------------------------
(* The soft-delete flag after a sync (SpecResync) *)

\* C38: the row of every event a run has written carries is_deleted = false,
\* also when a local caller had marked the event deleted before the run.
C38_SyncClearsFlag ==
    \A k \in 1..Len(upsert_log) :
        upsert_log[k].ok =>
            \A r \in calendar_event : r.event_id = upsert_log[k].raw.id => ~r.is_deleted

\* C38 witness: the second run has written an event that was marked deleted
\* after the first, and its row is live again.
C38_Witness ==
    /\ run_no = 2
    /\ \E k \in 1..Len(upsert_log), r \in calendar_event :
          /\ upsert_log[k].ok
          /\ upsert_log[k].raw.id \in marked
          /\ r.event_id = upsert_log[k].raw.id
          /\ ~r.is_deleted

----------------------------------------------------------------------------
(* Staging tables across pooled connections (SpecStaging) *)

C39_StartsClean ==
    \A i \in 1..Len(staging.results) : ~staging.results[i].leftover

\* The second half under the first: a call that returned True has its event
\* stored once its connection is back in the pool.
C39_ReturnedTrueIsStored ==
    \A i \in 1..Len(staging.results) :
        staging.results[i].result = "True" => i \in staging.stored

====
